---- MODULE Spec2Model ----
(***************************************************************************)
(* A model of the mommas-cookbook exchange pipeline: the retry wrapper,    *)
(* the event bus, the exchange's market and OHLCV caches, the pair list    *)
(* manager and the service start-up.  Every component is a state machine   *)
(* of its own over its own variables; a specification runs one component   *)
(* and leaves the variables of the others at rest.                         *)
(***************************************************************************)
EXTENDS Integers, Sequences, FiniteSets, TLC

VARIABLES
    \* utils/retry.py: one call of a function wrapped by async_retrier
    exchange_name, budget, script, kucoin, soft429, count, invocations, retry_pc, raised_exc, sleeps,
    \* events.py: one Event, its subscribers and the tasks of one emit
    subscribers, behaviour, tasks, emit_pc,
    \* exchanges/abc.py: Exchange._markets and the get_markets calls
    markets, gm_pc, load_calls, loads_empty, loads_failed, markets_emits, gm_calls,
    \* exchanges/abc.py: the OHLCV cache, the clock and the refresh_latest_ohlcv calls
    now, required_candle_call_count, klines, pairs_last_refresh_time, oc,
    \* pairlist/manager.py: the configuration, the manager's fields, the ticker
    \* cache, the monotonic clock and the refresh_pairlist calls
    pl_config, allow_list, block_list, pairlist_handlers, tickers_needed,
    tickers_cache, pair_cache, mono, rp, fetch_tickers_calls, pairs_emitted,
    \* cli/abc.py: the tasks of one CLIService.run, the event loop's ready
    \* queue, the startup steps in the order they happened, and the pairs
    \* Exchange._on_pairs_available has still to fetch
    su, ready, trace, pa_todo,
    \* one direct call of a function of the pair list package, and what it
    \* returned or raised
    unit_call, unit_ret,
    \* cli/abc.py: where CLIService.run is, the exception it ends with and the
    \* emissions of on_stop
    run_pc, run_exc, stop_emits

retryVars == <<exchange_name, budget, script, kucoin, soft429, count, invocations, retry_pc,
              raised_exc, sleeps>>

emitVars == <<subscribers, behaviour, tasks, emit_pc>>

marketVars == <<markets, gm_pc, load_calls, loads_empty, loads_failed, markets_emits, gm_calls>>

ohlcvVars == <<now, required_candle_call_count, klines, pairs_last_refresh_time, oc>>

pairlistVars == <<pl_config, allow_list, block_list, pairlist_handlers, tickers_needed,
                  tickers_cache, pair_cache, mono, rp, fetch_tickers_calls, pairs_emitted>>

startupVars == <<su, ready, trace, pa_todo>>

callVars == <<unit_call, unit_ret>>

runVars == <<run_pc, run_exc, stop_emits>>

vars == <<retryVars, emitVars, marketVars, ohlcvVars, pairlistVars, startupVars, callVars,
         runVars>>

\* What an action of one component leaves alone: the other components.
notRetry == <<emitVars, marketVars, ohlcvVars, pairlistVars, startupVars, callVars, runVars>>

notEmit == <<retryVars, marketVars, ohlcvVars, pairlistVars, startupVars, callVars, runVars>>

notMarket == <<retryVars, emitVars, ohlcvVars, pairlistVars, startupVars, callVars, runVars>>

notOhlcv == <<retryVars, emitVars, marketVars, pairlistVars, startupVars, callVars, runVars>>

notPairlist == <<retryVars, emitVars, marketVars, ohlcvVars, startupVars, callVars, runVars>>

notRun == <<retryVars, marketVars, ohlcvVars, pairlistVars, startupVars, callVars>>

notCall == <<retryVars, emitVars, marketVars, ohlcvVars, pairlistVars, startupVars, runVars>>

Min(a, b) == IF a <= b THEN a ELSE b

Max(a, b) == IF a >= b THEN a ELSE b

\* All sequences over S of length at most n.
SeqUpTo(S, n) == UNION {[1..k -> S] : k \in 0..n}

(***************************************************************************)
(* utils/retry.py                                                          *)
(***************************************************************************)

API_RETRY_COUNT == 4

\* Largest retry budget a caller passes as the count keyword.
MaxBudget == 4

\* The wrapped function fails on at most this many leading invocations.
MaxScript == MaxBudget + 1

\* The mutant of IsTemporaryError: the wrapper catches every exception.
CatchesEverything(ex) == ex # "none"

\* exceptions.py: DDosProtection is a subclass of TemporaryError;
\* OperationalException is not.
IsTemporaryError(ex) == ex \in {"TemporaryError", "DDosProtection"}

\* What ccxt_conn.fetch_ohlcv raises. In ccxt NotSupported is an ExchangeError
\* and DDoSProtection is a NetworkError; all of them are BaseError.
CcxtErrors == {"NotSupported", "DDoSProtection", "NetworkError", "ExchangeError", "BaseError"}

\* get_candle_history: the except clauses, tried in the order they are written.
CandleHistoryRaises(exc) ==
    LET isa == [e \in CcxtErrors |->
                   CASE e = "NotSupported" -> {"NotSupported", "ExchangeError", "BaseError"}
                     [] e = "DDoSProtection" -> {"DDoSProtection", "NetworkError", "BaseError"}
                     [] e = "NetworkError" -> {"NetworkError", "BaseError"}
                     [] e = "ExchangeError" -> {"ExchangeError", "BaseError"}
                     [] OTHER -> {"BaseError"}]
    IN  IF "NotSupported" \in isa[exc] THEN "OperationalException"
        ELSE IF "DDoSProtection" \in isa[exc] THEN "DDosProtection"
        ELSE IF isa[exc] \cap {"NetworkError", "ExchangeError"} # {} THEN "TemporaryError"
        ELSE "OperationalException"

\* What one invocation of the wrapped function can raise.
Outcomes == {CandleHistoryRaises(exc) : exc \in CcxtErrors}

\* The exchange names a configuration file may carry.
ConfiguredNames == {"Binance", "binance", "Kucoin", "kucoin"}

\* ExchangeConfig._validate_exchange_name: the configured name is stored in
\* lower case.
validate_exchange_name(value) ==
    CASE value \in {"Binance", "binance"} -> "binance"
      [] value \in {"Kucoin", "kucoin"} -> "kucoin"

\* wrapper: kucoin = args[0].config.exchange.name == "Kucoin".
IsKucoin(name) == name = "Kucoin"

calculate_backoff(retrycount, max_retries) == (max_retries - retrycount) * (max_retries - retrycount) + 1

\* The mutant of CanRetry: the last retry of the budget is never made.
CanRetryOffByOne(c) == c > 1

\* `if count > 0` of the wrapper's except branch.
CanRetry(c) == c > 0

\* The delay-free branch: DDosProtection on Kucoin carrying the 429000 code.
SkipsBackoff(ex) == kucoin /\ soft429

\* The state of a wrapped call when the caller invokes it with count = budget.
RetryInit ==
    /\ exchange_name \in {validate_exchange_name(value) : value \in ConfiguredNames}
    /\ budget \in 0..MaxBudget
    /\ script \in SeqUpTo(Outcomes, MaxScript)
    /\ kucoin = IsKucoin(exchange_name)
    /\ soft429 \in BOOLEAN
    /\ count = budget
    /\ invocations = 0
    /\ retry_pc = "call"
    /\ raised_exc = "none"
    /\ sleeps = <<>>

\* The variables of the retry wrapper while another component runs.
RetryRest ==
    /\ exchange_name = "binance"
    /\ budget = 0
    /\ script = <<>>
    /\ kucoin = FALSE
    /\ soft429 = FALSE
    /\ count = 0
    /\ invocations = 0
    /\ retry_pc = "rest"
    /\ raised_exc = "none"
    /\ sleeps = <<>>

\* wrapper: await func(*args, **kwargs) and the except TemporaryError branch.
\* The function fails with script[i] on its i-th invocation and succeeds once
\* the script is used up.
RetryInvoke ==
    /\ retry_pc = "call"
    /\ invocations' = invocations + 1
    /\ LET i == invocations + 1
           ex == IF i <= Len(script) THEN script[i] ELSE "none"
       IN  IF ex = "none"
           THEN /\ retry_pc' = "returned"
                /\ UNCHANGED <<count, raised_exc, sleeps>>
           ELSE IF ~IsTemporaryError(ex)
           THEN /\ retry_pc' = "raised"
                /\ raised_exc' = ex
                /\ UNCHANGED <<count, sleeps>>
           ELSE IF CanRetry(count)
           THEN /\ count' = count - 1
                /\ raised_exc' = raised_exc
                /\ IF ex = "DDosProtection" /\ ~SkipsBackoff(ex)
                   THEN /\ sleeps' = Append(sleeps, calculate_backoff(count' + 1, API_RETRY_COUNT))
                        /\ retry_pc' = "sleep"
                   ELSE /\ sleeps' = sleeps
                        /\ retry_pc' = "call"
           ELSE /\ retry_pc' = "raised"
                /\ raised_exc' = ex
                /\ UNCHANGED <<count, sleeps>>
    /\ UNCHANGED <<exchange_name, budget, script, kucoin, soft429>>
    /\ UNCHANGED notRetry

\* await asyncio.sleep(backoff_delay) returns; the wrapper calls itself.
RetryWake ==
    /\ retry_pc = "sleep"
    /\ retry_pc' = "call"
    /\ UNCHANGED <<exchange_name, budget, script, kucoin, soft429, count, invocations, raised_exc,
                   sleeps>>
    /\ UNCHANGED notRetry

RetryNext ==
    \/ RetryInvoke
    \/ RetryWake

RetryFinished == retry_pc \in {"returned", "raised"}

\* The function raises TemporaryError (or its subclass) on its first
\* Len(script) invocations and then succeeds.
FailsThenSucceeds == \A i \in 1..Len(script) : IsTemporaryError(script[i])

\* C5: a wrapped call with budget N whose function raises TemporaryError on
\* its first k invocations and then succeeds invokes the function exactly
\* min(k, N) + 1 times; it returns when k <= N and re-raises the error of the
\* last invocation when k > N.
C5_RetryInvocations ==
    (RetryFinished /\ FailsThenSucceeds) =>
        LET k == Len(script)
            N == budget
        IN  /\ invocations = Min(k, N) + 1
            /\ (k <= N) => (retry_pc = "returned" /\ raised_exc = "none")
            /\ (k > N) => (retry_pc = "raised" /\ raised_exc = script[N + 1])

\* C5 witness: budget 4, three failures, the value is returned after 4 invocations.
C5_Witness ==
    /\ retry_pc = "returned"
    /\ budget = 4
    /\ Len(script) = 3
    /\ FailsThenSucceeds
    /\ invocations = 4

\* The outcome of the invocation the wrapper makes next.
NextOutcome == IF invocations < Len(script) THEN script[invocations + 1] ELSE "none"

\* The wrapper makes an invocation in this step.
Invokes == retry_pc = "call" /\ invocations' = invocations + 1

\* C15: an exception that is not a TemporaryError (the OperationalException
\* that get_candle_history makes of ccxt.NotSupported included) is raised to
\* the caller by the invocation that met it, with no retry and no sleep: a
\* call whose first invocation raises it ends after exactly one invocation.
C15_NonTemporaryPropagates ==
    /\ ~IsTemporaryError(CandleHistoryRaises("NotSupported"))
    /\ [][(Invokes /\ NextOutcome # "none" /\ ~IsTemporaryError(NextOutcome)) =>
             (/\ retry_pc' = "raised"
              /\ raised_exc' = NextOutcome
              /\ count' = count
              /\ sleeps' = sleeps)]_vars
    /\ [][(retry_pc = "raised") =>
             (retry_pc' = "raised" /\ invocations' = invocations /\ sleeps' = sleeps)]_vars
    /\ [][(retry_pc' = "raised" /\ script # <<>> /\ ~IsTemporaryError(script[1])) =>
             (invocations' = 1 /\ sleeps' = <<>> /\ count' = budget)]_vars

\* C15 witness: the exchange does not support the call; with a budget of 4
\* the OperationalException reached the caller after one invocation.
C15_Witness ==
    /\ retry_pc = "raised"
    /\ script # <<>>
    /\ script[1] = CandleHistoryRaises("NotSupported")
    /\ raised_exc = "OperationalException"
    /\ budget = 4
    /\ invocations = 1
    /\ sleeps = <<>>

\* The wrapper retries in this step: the invocation raised a TemporaryError
\* and budget was left.
Retries == Invokes /\ IsTemporaryError(NextOutcome) /\ count > 0

\* The target exchange is the one known for the soft rate-limit code and the
\* error carries that code.
SoftRateLimit == exchange_name = "kucoin" /\ soft429

C40_BackoffStartsAtOne ==
    /\ (sleeps # <<>> /\ script[1] = "DDosProtection") => sleeps[1] = 1
    /\ \A i, j \in 1..Len(sleeps) : i < j => sleeps[i] < sleeps[j]

(***************************************************************************)
(* events.py: Event._register, _unregister, _emit, _emit_wrapper           *)
(***************************************************************************)

\* The callables that may subscribe to the event.
MaxSubscribers == 3

\* A subscriber suspends at most this many times before it finishes.
MaxAwaits == 2

SubscriberIds == 1..MaxSubscribers

\* What a subscriber does when called: how many times it awaits, and whether
\* it raises at its end.
Behaviours == [awaits : 0..MaxAwaits, fails : BOOLEAN]

EmitInit ==
    /\ subscribers = {}
    /\ behaviour \in [SubscriberIds -> Behaviours]
    /\ tasks = <<>>
    /\ emit_pc = "idle"

EmitRest ==
    /\ subscribers = {}
    /\ behaviour = <<>>
    /\ tasks = <<>>
    /\ emit_pc = "rest"

\* Event._register: self.__subscribers__.add(func)
Register(s) ==
    /\ emit_pc = "idle"
    /\ s \notin subscribers
    /\ subscribers' = subscribers \cup {s}
    /\ UNCHANGED <<behaviour, tasks, emit_pc>>
    /\ UNCHANGED notEmit

\* Event._unregister: self.__subscribers__.remove(func)
Unregister(s) ==
    /\ emit_pc = "idle"
    /\ s \in subscribers
    /\ subscribers' = subscribers \ {s}
    /\ UNCHANGED <<behaviour, tasks, emit_pc>>
    /\ UNCHANGED notEmit

\* Event._emit up to its await: one task per current subscriber, then
\* asyncio.gather(*tasks) without return_exceptions.
Emit ==
    /\ emit_pc = "idle"
    /\ tasks' = [s \in subscribers |-> [state |-> "created", left |-> behaviour[s].awaits]]
    /\ emit_pc' = "gathering"
    /\ UNCHANGED <<subscribers, behaviour>>
    /\ UNCHANGED notEmit

\* The event loop runs a task of _emit_wrapper up to its next suspension or
\* to its end; the wrapper logs and re-raises what the subscriber raised.
TaskStep(s) ==
    /\ emit_pc \in {"gathering", "returned", "raised"}
    /\ s \in DOMAIN tasks
    /\ tasks[s].state \in {"created", "suspended"}
    /\ tasks' = [tasks EXCEPT ![s] =
           IF tasks[s].left > 0
           THEN [state |-> "suspended", left |-> tasks[s].left - 1]
           ELSE [state |-> IF behaviour[s].fails THEN "failed" ELSE "done", left |-> 0]]
    /\ UNCHANGED <<subscribers, behaviour, emit_pc>>
    /\ UNCHANGED notEmit

\* Whether gather hands an exception to the awaiting _emit: without
\* return_exceptions the first child that fails sets the outer future's
\* exception.  The loop's queue is first-in first-out, so the tasks created
\* before the await have all run their first step by then.
GatherRaises(ts) ==
    /\ \E s \in DOMAIN ts : ts[s].state = "failed"
    /\ \A s \in DOMAIN ts : ts[s].state # "created"

\* Whether gather resolves with the results: every child finished normally.
GatherReturns(ts) == \A s \in DOMAIN ts : ts[s].state = "done"

\* `await asyncio.gather(*tasks)` raises into _emit, which raises to its caller.
EmitRaise ==
    /\ emit_pc = "gathering"
    /\ GatherRaises(tasks)
    /\ emit_pc' = "raised"
    /\ UNCHANGED <<subscribers, behaviour, tasks>>
    /\ UNCHANGED notEmit

\* `await asyncio.gather(*tasks)` returns and _emit returns None.
EmitReturn ==
    /\ emit_pc = "gathering"
    /\ GatherReturns(tasks)
    /\ emit_pc' = "returned"
    /\ UNCHANGED <<subscribers, behaviour, tasks>>
    /\ UNCHANGED notEmit

\* cli/abc.py, CLIService.run's finally: once the failure reached the
\* service, every task that is still pending is cancelled.
CancelOutstanding ==
    /\ emit_pc = "raised"
    /\ \E s \in DOMAIN tasks : tasks[s].state = "suspended"
    /\ tasks' = [s \in DOMAIN tasks |->
           IF tasks[s].state = "suspended" THEN [state |-> "cancelled", left |-> tasks[s].left]
           ELSE tasks[s]]
    /\ UNCHANGED <<subscribers, behaviour, emit_pc>>
    /\ UNCHANGED notEmit

\* The variables of CLIService.run while another component runs.
RunRest ==
    /\ run_pc = "rest"
    /\ run_exc = ""
    /\ stop_emits = 0

EmitNext ==
    \/ \E s \in SubscriberIds : Register(s)
    \/ \E s \in SubscriberIds : Unregister(s)
    \/ Emit
    \/ \E s \in SubscriberIds : TaskStep(s)
    \/ EmitRaise
    \/ EmitReturn
    \/ CancelOutstanding

\* C3: emit returns or raises only after every subscriber it started has
\* finished: when one subscriber raises, the exception reaches emit's caller
\* only after every sibling has run to completion.
C3_EmitWaitsForAll ==
    emit_pc \in {"returned", "raised"} =>
        \A s \in DOMAIN tasks : tasks[s].state \in {"done", "failed"}

(***************************************************************************)
(* exchanges/abc.py: Exchange.get_markets                                  *)
(***************************************************************************)

\* The pairs the exchange may list: base/quote, as sequences of characters.
Pairs == {<<"B", "/", "U">>, <<"E", "/", "U">>}

\* The callers of get_markets.
MaxCallers == 2

\* How many get_markets calls are made in one run.
MaxMarketCalls == 4

Callers == 1..MaxCallers

\* What the connection's load_markets may answer: any market map, the empty
\* one included.
MarketMaps == SUBSET Pairs

MarketInit ==
    /\ markets = {}
    /\ gm_pc = [c \in Callers |-> "idle"]
    /\ load_calls = 0
    /\ loads_empty = 0
    /\ loads_failed = 0
    /\ markets_emits = 0
    /\ gm_calls = 0

MarketRest ==
    /\ markets = {}
    /\ gm_pc = <<>>
    /\ load_calls = 0
    /\ loads_empty = 0
    /\ loads_failed = 0
    /\ markets_emits = 0
    /\ gm_calls = 0

\* The mutant of NeedsLoad: the cache is never consulted.
NeedsLoadAlways(m) == TRUE

\* `if not self._markets`: an empty dict is falsy.
NeedsLoad(m) == m = {}

\* get_markets up to its first await: a populated cache is returned at once,
\* otherwise the connection's load_markets is called.
GetMarketsCall(c) ==
    /\ gm_pc[c] = "idle"
    /\ gm_calls < MaxMarketCalls
    /\ gm_calls' = gm_calls + 1
    /\ IF NeedsLoad(markets)
       THEN /\ gm_pc' = [gm_pc EXCEPT ![c] = "loading"]
            /\ load_calls' = load_calls + 1
       ELSE /\ gm_pc' = [gm_pc EXCEPT ![c] = "returned"]
            /\ load_calls' = load_calls
    /\ UNCHANGED <<markets, loads_empty, loads_failed, markets_emits>>
    /\ UNCHANGED notMarket

\* load_markets answers m: self._markets = m, then markets-available is emitted.
LoadMarketsDone(c, m) ==
    /\ gm_pc[c] = "loading"
    /\ markets' = m
    /\ loads_empty' = IF m = {} THEN loads_empty + 1 ELSE loads_empty
    /\ markets_emits' = markets_emits + 1
    /\ gm_pc' = [gm_pc EXCEPT ![c] = "emitting"]
    /\ UNCHANGED <<load_calls, loads_failed, gm_calls>>
    /\ UNCHANGED notMarket

\* load_markets raises: the exception leaves get_markets, nothing is stored.
LoadMarketsFail(c) ==
    /\ gm_pc[c] = "loading"
    /\ loads_failed' = loads_failed + 1
    /\ gm_pc' = [gm_pc EXCEPT ![c] = "raised"]
    /\ UNCHANGED <<markets, load_calls, loads_empty, markets_emits, gm_calls>>
    /\ UNCHANGED notMarket

\* The emit of markets-available returns (or raises) and get_markets with it.
MarketsEmitDone(c, ok) ==
    /\ gm_pc[c] = "emitting"
    /\ gm_pc' = [gm_pc EXCEPT ![c] = IF ok THEN "returned" ELSE "raised"]
    /\ UNCHANGED <<markets, load_calls, loads_empty, loads_failed, markets_emits, gm_calls>>
    /\ UNCHANGED notMarket

\* The caller is free to call get_markets again.
GetMarketsAgain(c) ==
    /\ gm_pc[c] \in {"returned", "raised"}
    /\ gm_pc' = [gm_pc EXCEPT ![c] = "idle"]
    /\ UNCHANGED <<markets, load_calls, loads_empty, loads_failed, markets_emits, gm_calls>>
    /\ UNCHANGED notMarket

\* No get_markets call is between its first await and its return.
NoMarketCallInFlight == \A c \in Callers : gm_pc[c] \notin {"loading", "emitting"}

\* One call after the other: a call starts only when no other is in flight.
MarketSeqNext ==
    \/ \E c \in Callers : NoMarketCallInFlight /\ GetMarketsCall(c)
    \/ \E c \in Callers, m \in MarketMaps : LoadMarketsDone(c, m)
    \/ \E c \in Callers : LoadMarketsFail(c)
    \/ \E c \in Callers, ok \in BOOLEAN : MarketsEmitDone(c, ok)
    \/ \E c \in Callers : GetMarketsAgain(c)

\* C10 as stated: over any sequence of get_markets calls markets-available
\* is emitted at most once, and exactly once as soon as a load has returned.
C10_EmittedExactlyOnce ==
    /\ markets_emits <= 1
    /\ (load_calls > loads_failed /\ NoMarketCallInFlight) => markets_emits = 1

\* C10 amended: once a load has populated the cache no later call loads or
\* emits; markets-available is emitted once for each load that returned, so
\* exactly once plus once for every load that returned an empty market map.
C10_LoadedOncePopulated ==
    /\ load_calls <= loads_empty + loads_failed + 1
    /\ markets_emits <= loads_empty + 1
    /\ (markets # {}) => (markets_emits = loads_empty + 1)
    /\ NoMarketCallInFlight => (markets_emits = load_calls - loads_failed)

\* C10 witness: the cache is populated and a later call returned from it.
C10_Witness ==
    /\ markets # {}
    /\ gm_calls >= 2
    /\ load_calls = 1
    /\ markets_emits = 1
    /\ \A c \in Callers : gm_pc[c] = "returned"

\* Calls of several tasks: a call may start while another is suspended in
\* load_markets or in the emit.
MarketNext ==
    \/ \E c \in Callers : GetMarketsCall(c)
    \/ \E c \in Callers, m \in MarketMaps : LoadMarketsDone(c, m)
    \/ \E c \in Callers : LoadMarketsFail(c)
    \/ \E c \in Callers, ok \in BOOLEAN : MarketsEmitDone(c, ok)
    \/ \E c \in Callers : GetMarketsAgain(c)

\* The get_markets calls that found the cache empty and have not written it yet.
PassedCacheCheck == {c \in Callers : gm_pc[c] = "loading"}

\* C27: get_markets does not suspend between its check of the market cache
\* and the write: of the calls that overlap at most one passes the check,
\* so that at no time two of them are between the check and the write.
C27_OnePassesCacheCheck == Cardinality(PassedCacheCheck) <= 1

(***************************************************************************)
(* utils/tf.py and utils/data.py: timeframes and the candle normalisation  *)
(***************************************************************************)

\* A timeframe token "<amount><unit>" as the pair <<amount, unit>>.
tf1m == <<1, "m">>

tf5m == <<5, "m">>

\* ccxt.Exchange.parse_timeframe: the unit's scale times the amount.
to_seconds(timeframe) ==
    timeframe[1] * (CASE timeframe[2] = "y" -> 31536000
                      [] timeframe[2] = "M" -> 2592000
                      [] timeframe[2] = "w" -> 604800
                      [] timeframe[2] = "d" -> 86400
                      [] timeframe[2] = "h" -> 3600
                      [] timeframe[2] = "m" -> 60
                      [] timeframe[2] = "s" -> 1)

to_minutes(timeframe) == to_seconds(timeframe) \div 60

to_msecs(timeframe) == to_seconds(timeframe) * 1000

\* to_next_date for the date t (seconds): round_timeframe(..., ROUND_UP) // 1000.
to_next_date(timeframe, t) ==
    (t * 1000 - ((t * 1000) % to_msecs(timeframe)) + to_msecs(timeframe)) \div 1000

\* One row of fetch_ohlcv: [timestamp_ms, open, high, low, close, volume].
Candle(ts, o, h, l, c, v) == [ts |-> ts, open |-> o, high |-> h, low |-> l, close |-> c, volume |-> v]

SeqMax(s, f(_)) == CHOOSE x \in {f(s[i]) : i \in 1..Len(s)} : \A i \in 1..Len(s) : f(s[i]) <= x

SeqMin(s, f(_)) == CHOOSE x \in {f(s[i]) : i \in 1..Len(s)} : \A i \in 1..Len(s) : f(s[i]) >= x

RECURSIVE SumVolume(_)
SumVolume(s) == IF s = <<>> THEN 0 ELSE Head(s).volume + SumVolume(Tail(s))

\* The elements of a set of integers in ascending order.
RECURSIVE Ascending(_)
Ascending(S) ==
    IF S = {} THEN <<>>
    ELSE LET m == CHOOSE x \in S : \A y \in S : x <= y
         IN  <<m>> \o Ascending(S \ {m})

\* sorted(data, key=operator.itemgetter(0)): a stable sort by timestamp.
RECURSIVE SortByTs(_)
SortByTs(data) ==
    IF data = <<>> THEN <<>>
    ELSE LET x == Head(data)
             rest == SortByTs(Tail(data))
             idx == {i \in 1..Len(rest) : rest[i].ts >= x.ts}
             pos == IF idx = {} THEN Len(rest) + 1 ELSE CHOOSE i \in idx : \A j \in idx : i <= j
         IN  SubSeq(rest, 1, pos - 1) \o <<x>> \o SubSeq(rest, pos, Len(rest))

\* clean_ohlcv_dataframe: groupby(by="date", sort=True).agg(first, max, min, last, max)
GroupByDate(data) ==
    LET dates == Ascending({data[i].ts : i \in 1..Len(data)})
        rows(d) == SelectSeq(data, LAMBDA r : r.ts = d)
    IN  [n \in 1..Len(dates) |->
            LET g == rows(dates[n])
            IN  Candle(dates[n], g[1].open, SeqMax(g, LAMBDA r : r.high),
                       SeqMin(g, LAMBDA r : r.low), g[Len(g)].close,
                       SeqMax(g, LAMBDA r : r.volume))]

\* clean_ohlcv_dataframe: data.drop(data.tail(1).index)
DropLast(data) == IF data = <<>> THEN <<>> ELSE SubSeq(data, 1, Len(data) - 1)

\* ohlcv_fill_up_missing_data: resample to the timeframe; an interval without
\* a row gets the previous close as open, high, low and close, and volume 0.
ohlcv_fill_up_missing_data(data, timeframe) ==
    IF data = <<>> THEN <<>>
    ELSE LET w == to_minutes(timeframe) * 60000
             bucket(ts) == ts - (ts % w)
             first == bucket(data[1].ts)
             n == (bucket(data[Len(data)].ts) - first) \div w + 1
             inb(b) == SelectSeq(data, LAMBDA r : bucket(r.ts) = b)
             RECURSIVE fill(_, _)
             fill(k, prev_close) ==
                 IF k > n THEN <<>>
                 ELSE LET b == first + (k - 1) * w
                          g == inb(b)
                      IN  IF g = <<>>
                          THEN <<Candle(b, prev_close, prev_close, prev_close, prev_close, 0)>>
                                   \o fill(k + 1, prev_close)
                          ELSE <<Candle(b, g[1].open, SeqMax(g, LAMBDA r : r.high),
                                        SeqMin(g, LAMBDA r : r.low), g[Len(g)].close,
                                        SumVolume(g))>>
                                   \o fill(k + 1, g[Len(g)].close)
         IN  fill(1, 0)

\* ohlcv_to_dataframe as refresh_latest_ohlcv calls it: fill_missing=True,
\* drop_incomplete=True.
ohlcv_to_dataframe(ohlcv, timeframe) ==
    ohlcv_fill_up_missing_data(DropLast(GroupByDate(ohlcv)), timeframe)

(***************************************************************************)
(* exchanges/abc.py: refresh_latest_ohlcv, get_historic_ohlcv,             *)
(* get_candle_history, klines, _now_is_time_to_refresh                     *)
(***************************************************************************)

\* The (pair, timeframe) keys that are asked for.
KeyBU1m == <<<<"B", "/", "U">>, tf1m>>

KeyEU5m == <<<<"E", "/", "U">>, tf5m>>

OhlcvKeys == {KeyBU1m, KeyEU5m}

\* The pair_list arguments of the calls: one key, two keys, one key twice.
PairLists == {<<KeyBU1m>>, <<KeyEU5m>>, <<KeyBU1m, KeyEU5m>>, <<KeyBU1m, KeyBU1m>>}

\* The instants (seconds) at which the clock is read.
ClockValues == {110, 120, 121}

\* A since_ms a caller passes; 0 stands for None (both are falsy).
SinceValues == {0, 60000}

\* The task that calls refresh_latest_ohlcv.
OhlcvCallers == {"trader"}

\* exchange_supports["ohlcv_candle_limit"], the default.
OhlcvCandleLimitDefault == 500

\* chunks(input_coroutines, 100)
OhlcvBatchSize == 100

ohlcv_candle_limit(timeframe) == OhlcvCandleLimitDefault

\* What a fetch comes back with: an exception, or ticks.
Raised == [raised |-> TRUE, ticks |-> <<>>]

Fetched(ticks) == [raised |-> FALSE, ticks |-> ticks]

\* What fetch_ohlcv may answer for a timeframe at the instant t: nothing, the
\* running candle alone, or the running candle followed by the first one
\* (descending order; the same timestamp twice while the first candle is
\* still running).
ExchangeAnswers(timeframe, t) ==
    LET m == to_msecs(timeframe)
        j == t \div to_seconds(timeframe)
        x(i) == Candle(i * m, 3, 5, 2, 4, 10)
        y(i) == Candle(i * m, 4, 6, 1, 3, 20)
    IN  {Fetched(<<>>), Fetched(<<y(j)>>), Fetched(<<y(j), x(0)>>)}

\* utils/data.py chunks: the list cut into pieces of at most `size`.
RECURSIVE chunks(_, _)
chunks(list, size) ==
    IF list = <<>> THEN <<>>
    ELSE <<SubSeq(list, 1, Min(size, Len(list)))>>
             \o chunks(SubSeq(list, Min(size, Len(list)) + 1, Len(list)), size)

\* Every ordering of a finite set: `for pair, timeframe in set(pair_list)`
\* walks the set in an order the caller does not control.
Orderings(S) == {o \in [1..Cardinality(S) -> S] : \A i, j \in 1..Cardinality(S) : o[i] = o[j] => i = j}

SeqToSet(s) == {s[i] : i \in 1..Len(s)}

\* The mutant of now_is_time_to_refresh: a refresh is due already at the
\* instant last_refresh_time plus the timeframe.
TimeToRefreshAtBoundary(key, lrt, t) ==
    (IF key \in DOMAIN lrt THEN lrt[key] ELSE 0) + to_seconds(key[2]) <= t

\* _now_is_time_to_refresh: last_refresh_time (0 when unknown) plus the
\* timeframe in seconds lies before the current time.
now_is_time_to_refresh(key, lrt, t) ==
    (IF key \in DOMAIN lrt THEN lrt[key] ELSE 0) + to_seconds(key[2]) < t

\* The condition under which refresh_latest_ohlcv schedules a fetch for a key.
NeedsFetch(key, cache) ==
    \/ key \notin DOMAIN klines
    \/ ~cache
    \/ now_is_time_to_refresh(key, pairs_last_refresh_time, now)

\* The since_ms computed when none is given and more than one call is required.
SyntheticSince(timeframe, t) ==
    LET one_call == to_msecs(timeframe) * ohlcv_candle_limit(timeframe)
        move_to == one_call * required_candle_call_count
    IN  (to_next_date(timeframe, t) - move_to \div 1000) * 1000

\* The loop that gathers the coroutines, over the keys in the order `order`:
\* since_ms is a local of the call, and once set it stays set.
RECURSIVE GatherCoroutines(_, _, _, _)
GatherCoroutines(order, since_ms, cache, acc) ==
    IF order = <<>> THEN acc
    ELSE LET key == Head(order)
         IN  IF NeedsFetch(key, cache)
             THEN LET since == IF since_ms = 0 /\ required_candle_call_count > 1
                               THEN SyntheticSince(key[2], now) ELSE since_ms
                      coro == [key |-> key,
                               path |-> IF since # 0 THEN "get_historic_ohlcv" ELSE "get_candle_history",
                               since_ms |-> since]
                  IN  GatherCoroutines(Tail(order), since, cache,
                          [acc EXCEPT !.input_coroutines = Append(@, coro)])
             ELSE GatherCoroutines(Tail(order), since_ms, cache,
                      [acc EXCEPT !.cached_pairs = Append(@, key)])

\* get_candle_history: a page that came in descending order is sorted.
get_candle_history(data) ==
    IF data # <<>> /\ data[1].ts > data[Len(data)].ts THEN SortByTs(data) ELSE data

\* get_historic_ohlcv: how many pages range(since_ms, now_ms, one_call) yields.
HistoricPages(timeframe, since_ms, t) ==
    LET one_call == to_msecs(timeframe) * ohlcv_candle_limit(timeframe)
    IN  IF since_ms >= t * 1000 THEN 0 ELSE (t * 1000 - since_ms + one_call - 1) \div one_call

\* What a coroutine of the batch resolves to, given what the exchange
\* answered: an exception, or the ticks of the (pair, timeframe, ticks) tuple.
\* get_historic_ohlcv sorts what its pages returned and re-raises a failure.
CoroutineResult(coro, answer, t) ==
    IF coro.path = "get_candle_history"
    THEN IF answer.raised THEN Raised ELSE Fetched(get_candle_history(answer.ticks))
    ELSE IF HistoricPages(coro.key[2], coro.since_ms, t) = 0 THEN Fetched(<<>>)
    ELSE IF answer.raised THEN Raised
    ELSE Fetched(SortByTs(get_candle_history(answer.ticks)))

\* The mutant of NewLastRefreshTime: the wall clock is stored.
NewLastRefreshTimeWallClock(lrt, key, ticks) == [k \in DOMAIN lrt \cup {key} |-> IF k = key THEN now ELSE lrt[k]]

\* `if ticks: self._pairs_last_refresh_time[(pair, timeframe)] = ticks[-1][0] // 1000`
NewLastRefreshTime(lrt, key, ticks) ==
    IF ticks = <<>> THEN lrt
    ELSE [k \in DOMAIN lrt \cup {key} |-> IF k = key THEN ticks[Len(ticks)].ts \div 1000 ELSE lrt[k]]

\* The mutant of StoreResult: a failed fetch puts an empty series into the result.
StoreResultAlsoOnFailure(results_df, key, res) ==
    [k \in DOMAIN results_df \cup {key} |->
        IF k = key THEN (IF res.raised THEN <<>> ELSE ohlcv_to_dataframe(res.ticks, key[2]))
        ELSE results_df[k]]

\* `if isinstance(res, Exception): continue`, else results_df[(pair, timeframe)] = ohlcv_df
StoreResult(results_df, key, res) ==
    IF res.raised THEN results_df
    ELSE [k \in DOMAIN results_df \cup {key} |->
             IF k = key THEN ohlcv_to_dataframe(res.ticks, key[2]) ELSE results_df[k]]

\* The loop that handles the results of one batch, in the order of the batch.
RECURSIVE HandleResults(_, _, _, _)
HandleResults(batch, results, cache, acc) ==
    IF batch = <<>> THEN acc
    ELSE LET key == Head(batch).key
             res == results[key]
         IN  HandleResults(Tail(batch), results, cache,
                 IF res.raised
                 THEN [acc EXCEPT !.results_df = StoreResult(@, key, res)]
                 ELSE [lrt |-> NewLastRefreshTime(acc.lrt, key, res.ticks),
                       results_df |-> StoreResult(acc.results_df, key, res),
                       klines |-> IF cache
                                  THEN [k \in DOMAIN acc.klines \cup {key} |->
                                           IF k = key THEN ohlcv_to_dataframe(res.ticks, key[2])
                                           ELSE acc.klines[k]]
                                  ELSE acc.klines])

\* Exchange.klines(pair_interval, copy=False): the entry, or an empty frame.
klines_of(cache_map, key) == IF key \in DOMAIN cache_map THEN cache_map[key] ELSE <<>>

\* The mutant of ReturnCached: the cached keys are not added to the result.
ReturnNothingCached(cached_pairs, cache_map, results_df) == results_df

\* `for pair, timeframe in cached_pairs: results_df[...] = self.klines(...)`
RECURSIVE ReturnCached(_, _, _)
ReturnCached(cached_pairs, cache_map, results_df) ==
    IF cached_pairs = <<>> THEN results_df
    ELSE ReturnCached(Tail(cached_pairs), cache_map,
             [k \in DOMAIN results_df \cup {Head(cached_pairs)} |->
                 IF k = Head(cached_pairs) THEN klines_of(cache_map, k) ELSE results_df[k]])

\* A caller that is not inside refresh_latest_ohlcv.
NoCall == [pc |-> "idle"]

OhlcvInit ==
    /\ now = CHOOSE t \in ClockValues : \A u \in ClockValues : t <= u
    /\ required_candle_call_count \in {1, 2}
    /\ klines = <<>>
    /\ pairs_last_refresh_time = <<>>
    /\ oc = [c \in OhlcvCallers |-> NoCall]

OhlcvRest ==
    /\ now = 0
    /\ required_candle_call_count = 1
    /\ klines = <<>>
    /\ pairs_last_refresh_time = <<>>
    /\ oc = <<>>

\* Time passes.
Tick(t) ==
    /\ t > now
    /\ now' = t
    /\ UNCHANGED <<required_candle_call_count, klines, pairs_last_refresh_time, oc>>
    /\ UNCHANGED notOhlcv

\* refresh_latest_ohlcv up to its first await.  With nothing to fetch there
\* is no batch and the call returns without suspending.  The record of the
\* caller's previous call, if any, is replaced.
RefreshLatestOhlcv(c, pair_list, since_ms, cache, order) ==
    /\ oc[c].pc \in {"idle", "returned"}
    /\ order \in Orderings(SeqToSet(pair_list))
    /\ LET g == GatherCoroutines(order, since_ms, cache, [input_coroutines |-> <<>>, cached_pairs |-> <<>>])
           call == [pair_list |-> pair_list, since_ms |-> since_ms, cache |-> cache, at |-> now,
                    input_coroutines |-> g.input_coroutines, cached_pairs |-> g.cached_pairs,
                    batches |-> chunks(g.input_coroutines, OhlcvBatchSize),
                    results |-> <<>>]
       IN  IF g.input_coroutines = <<>>
           THEN oc' = [oc EXCEPT ![c] = call @@
                           [pc |-> "returned", results_df |-> ReturnCached(g.cached_pairs, klines, <<>>)]]
           ELSE oc' = [oc EXCEPT ![c] = call @@ [pc |-> "waiting", results_df |-> <<>>]]
    /\ UNCHANGED <<now, required_candle_call_count, klines, pairs_last_refresh_time>>

\* `results = await asyncio.gather(*input_coro, return_exceptions=True)`
\* resolves for the first batch that is left, the results are handled, and
\* after the last batch the cached keys are added and the call returns.
GatherDone(c, answers) ==
    /\ oc[c].pc = "waiting"
    /\ LET batch == Head(oc[c].batches)
           results == [k \in {batch[i].key : i \in 1..Len(batch)} |->
                          CoroutineResult(CHOOSE co \in SeqToSet(batch) : co.key = k, answers[k], now)]
           h == HandleResults(batch, results, oc[c].cache,
                    [lrt |-> pairs_last_refresh_time, results_df |-> oc[c].results_df, klines |-> klines])
           all_results == results @@ oc[c].results
           last == Len(oc[c].batches) = 1
       IN  /\ DOMAIN answers = DOMAIN results
           /\ klines' = h.klines
           /\ pairs_last_refresh_time' = h.lrt
           /\ oc' = [oc EXCEPT ![c] =
                  [@ EXCEPT !.batches = Tail(@), !.results = all_results,
                            !.pc = IF last THEN "returned" ELSE "waiting",
                            !.results_df = IF last THEN ReturnCached(oc[c].cached_pairs, h.klines, h.results_df)
                                           ELSE h.results_df]]
    /\ UNCHANGED <<now, required_candle_call_count>>

\* A call that starts while no caller is inside refresh_latest_ohlcv.
RefreshLatestOhlcvAlone(c, pair_list, since_ms, cache, order) ==
    /\ \A d \in OhlcvCallers : oc[d].pc # "waiting"
    /\ RefreshLatestOhlcv(c, pair_list, since_ms, cache, order)
    /\ UNCHANGED notOhlcv

\* What the exchange answers to the fetches of the batch caller c waits for.
BatchAnswers(c) ==
    IF oc[c].pc # "waiting" THEN {}
    ELSE LET batch == Head(oc[c].batches)
             keys == {batch[i].key : i \in 1..Len(batch)}
         IN  {a \in [keys -> UNION {ExchangeAnswers(k[2], now) : k \in keys} \cup {Raised}] :
                 \A k \in keys : a[k].raised \/ a[k] \in ExchangeAnswers(k[2], now)}

\* One call after the other.
OhlcvSeqNext ==
    \/ \E t \in ClockValues : Tick(t)
    \/ \E c \in OhlcvCallers, pl \in PairLists, s \in SinceValues, ca \in BOOLEAN :
           \E o \in Orderings(SeqToSet(pl)) : RefreshLatestOhlcvAlone(c, pl, s, ca, o)
    \/ \E c \in OhlcvCallers : \E a \in BatchAnswers(c) : GatherDone(c, a) /\ UNCHANGED notOhlcv

\* The tasks that call refresh_latest_ohlcv while another call may be
\* suspended in its gather.
OverlapCallers == {"trader", "pairlist"}

\* The pair_list arguments of the calls that overlap.
OverlapPairLists == {<<KeyBU1m>>, <<KeyEU5m>>}

OhlcvOverlapInit ==
    /\ now = CHOOSE t \in ClockValues : \A u \in ClockValues : t <= u
    /\ required_candle_call_count = 1
    /\ klines = <<>>
    /\ pairs_last_refresh_time = <<>>
    /\ oc = [c \in OverlapCallers |-> NoCall]

\* What the exchange answers to the fetches of the batch caller c waits
\* for, when an answer is made at some instant between the call and the
\* instant at which the gather resolves.
AnswersSince(c) ==
    IF oc[c].pc # "waiting" THEN {}
    ELSE LET batch == Head(oc[c].batches)
             keys == {batch[i].key : i \in 1..Len(batch)}
             answered == {t \in ClockValues : oc[c].at <= t /\ t <= now}
         IN  {a \in [keys -> UNION {ExchangeAnswers(k[2], t) : k \in keys, t \in answered} \cup {Raised}] :
                 \A k \in keys : a[k].raised \/ \E t \in answered : a[k] \in ExchangeAnswers(k[2], t)}

\* Calls of several tasks: a call may start while another waits for its batch.
OhlcvOverlapNext ==
    \/ \E t \in ClockValues : Tick(t)
    \/ \E c \in OverlapCallers, pl \in OverlapPairLists, ca \in BOOLEAN :
           \E o \in Orderings(SeqToSet(pl)) : RefreshLatestOhlcv(c, pl, 0, ca, o) /\ UNCHANGED notOhlcv
    \/ \E c \in OverlapCallers : \E a \in AnswersSince(c) : GatherDone(c, a) /\ UNCHANGED notOhlcv

\* C28: over every sequence and interleaving of refresh_latest_ohlcv calls
\* the last_refresh_time of a key never decreases: a fetch that completes
\* later with older candles does not replace a newer value.
C28_RefreshTimeNeverDecreases ==
    [][\A k \in DOMAIN pairs_last_refresh_time :
           /\ k \in DOMAIN pairs_last_refresh_time'
           /\ pairs_last_refresh_time'[k] >= pairs_last_refresh_time[k]]_vars

\* Pairs enough to fill more than one batch: "001/U", "002/U", ...
Digits == <<"0", "1", "2", "3", "4", "5", "6", "7", "8", "9">>

ManyPair(i) ==
    <<Digits[((i \div 100) % 10) + 1], Digits[((i \div 10) % 10) + 1], Digits[(i % 10) + 1], "/", "U">>

ManyKeys(n) == [i \in 1..n |-> <<ManyPair(i), tf1m>>]

\* The pair_list arguments of the calls: keys for one batch and one key
\* more, and two keys.
BatchPairLists == {ManyKeys(OhlcvBatchSize + 1), ManyKeys(2)}

\* The instants (seconds) at which the first call may be made; at the later
\* one get_historic_ohlcv has two pages to fetch since 60 s.
BatchClockValues == {110, 40000}

OhlcvBatchInit ==
    /\ now \in BatchClockValues
    /\ required_candle_call_count = 1
    /\ klines = <<>>
    /\ pairs_last_refresh_time = <<>>
    /\ oc = [c \in OhlcvCallers |-> NoCall]

\* The loop of GatherCoroutines for a call in which since_ms stays what the
\* caller passed (required_candle_call_count is 1): a coroutine for every
\* key that needs a fetch, the other keys are cached pairs.
ManyCoroutines(order, since_ms, cache) ==
    LET due == SelectSeq(order, LAMBDA key : NeedsFetch(key, cache))
    IN  [input_coroutines |->
             [i \in 1..Len(due) |->
                 [key |-> due[i],
                  path |-> IF since_ms # 0 THEN "get_historic_ohlcv" ELSE "get_candle_history",
                  since_ms |-> since_ms]],
         cached_pairs |-> SelectSeq(order, LAMBDA key : ~NeedsFetch(key, cache))]

\* The loop of HandleResults over a batch, key by key: the keys of a batch
\* are distinct, so that what is stored for one does not depend on the others.
HandleMany(batch, results, cache, acc) ==
    LET keys == {batch[i].key : i \in 1..Len(batch)}
        fetched == {k \in keys : ~results[k].raised}
        timed == {k \in fetched : results[k].ticks # <<>>}
    IN  [lrt |-> [k \in DOMAIN acc.lrt \cup timed |->
                     IF k \in timed THEN NewLastRefreshTime(acc.lrt, k, results[k].ticks)[k]
                     ELSE acc.lrt[k]],
         results_df |-> [k \in DOMAIN acc.results_df \cup fetched |->
                            IF k \in fetched THEN StoreResult(acc.results_df, k, results[k])[k]
                            ELSE acc.results_df[k]],
         klines |-> IF cache
                    THEN [k \in DOMAIN acc.klines \cup fetched |->
                             IF k \in fetched THEN ohlcv_to_dataframe(results[k].ticks, k[2])
                             ELSE acc.klines[k]]
                    ELSE acc.klines]

\* The loop of ReturnCached, key by key.
ReturnMany(cached_pairs, cache_map, results_df) ==
    [k \in DOMAIN results_df \cup SeqToSet(cached_pairs) |->
        IF k \in SeqToSet(cached_pairs) THEN klines_of(cache_map, k) ELSE results_df[k]]

\* refresh_latest_ohlcv up to its first await, for a pair_list without
\* repeated keys that set(pair_list) walks in the order of the list.
RefreshManyOhlcv(c, pair_list, since_ms, cache) ==
    /\ oc[c].pc \in {"idle", "returned"}
    /\ required_candle_call_count = 1
    /\ LET g == ManyCoroutines(pair_list, since_ms, cache)
           call == [pair_list |-> pair_list, since_ms |-> since_ms, cache |-> cache, at |-> now,
                    input_coroutines |-> g.input_coroutines, cached_pairs |-> g.cached_pairs,
                    batches |-> chunks(g.input_coroutines, OhlcvBatchSize),
                    results |-> <<>>]
       IN  IF g.input_coroutines = <<>>
           THEN oc' = [oc EXCEPT ![c] = call @@
                           [pc |-> "returned", results_df |-> ReturnMany(g.cached_pairs, klines, <<>>)]]
           ELSE oc' = [oc EXCEPT ![c] = call @@ [pc |-> "waiting", results_df |-> <<>>]]
    /\ UNCHANGED <<now, required_candle_call_count, klines, pairs_last_refresh_time>>
    /\ UNCHANGED notOhlcv

\* The gather of the first batch that is left resolves, the results are
\* handled, and after the last batch the cached keys are added and the call
\* returns.
ManyGatherDone(c, answers) ==
    /\ oc[c].pc = "waiting"
    /\ LET batch == Head(oc[c].batches)
           results == [k \in {batch[i].key : i \in 1..Len(batch)} |->
                          CoroutineResult(CHOOSE co \in SeqToSet(batch) : co.key = k, answers[k], now)]
           h == HandleMany(batch, results, oc[c].cache,
                    [lrt |-> pairs_last_refresh_time, results_df |-> oc[c].results_df, klines |-> klines])
           last == Len(oc[c].batches) = 1
       IN  /\ DOMAIN answers = DOMAIN results
           /\ klines' = h.klines
           /\ pairs_last_refresh_time' = h.lrt
           /\ oc' = [oc EXCEPT ![c] =
                  [@ EXCEPT !.batches = Tail(@), !.results = results @@ oc[c].results,
                            !.pc = IF last THEN "returned" ELSE "waiting",
                            !.results_df = IF last THEN ReturnMany(oc[c].cached_pairs, h.klines, h.results_df)
                                           ELSE h.results_df]]
    /\ UNCHANGED <<now, required_candle_call_count>>
    /\ UNCHANGED notOhlcv

\* What the exchange answers to the fetches of the batch caller c waits
\* for: the same to all of them, or that with an exception for the first.
UniformAnswers(c) ==
    IF oc[c].pc # "waiting" THEN {}
    ELSE LET batch == Head(oc[c].batches)
             keys == {batch[i].key : i \in 1..Len(batch)}
         IN  {[k \in keys |-> IF first_raises /\ k = batch[1].key THEN Raised ELSE r] :
                 r \in {Fetched(<<>>), Fetched(<<Candle((now \div 60) * 60000, 4, 6, 1, 3, 20),
                                                 Candle(0, 3, 5, 2, 4, 10)>>)},
                 first_raises \in BOOLEAN}

\* The task is cancelled while it awaits the gather of a batch: the
\* CancelledError leaves refresh_latest_ohlcv there.
RefreshCancelled(c) ==
    /\ oc[c].pc = "waiting"
    /\ oc' = [oc EXCEPT ![c] = [@ EXCEPT !.pc = "cancelled"]]
    /\ UNCHANGED <<now, required_candle_call_count, klines, pairs_last_refresh_time>>
    /\ UNCHANGED notOhlcv

\* One call of many keys in a run, which is answered or cancelled.
OhlcvBatchNext ==
    \/ \E c \in OhlcvCallers, pl \in BatchPairLists, s \in SinceValues, ca \in BOOLEAN :
           oc[c].pc = "idle" /\ RefreshManyOhlcv(c, pl, s, ca)
    \/ \E c \in OhlcvCallers : \E a \in UniformAnswers(c) : ManyGatherDone(c, a)
    \/ \E c \in OhlcvCallers : RefreshCancelled(c)

\* The fetch_ohlcv calls a coroutine of a batch has in flight when it
\* starts at the instant t: get_candle_history makes one, get_historic_ohlcv
\* gathers its pages in chunks of 100.
FetchesOf(coro, t) ==
    IF coro.path = "get_candle_history" THEN 1
    ELSE Min(HistoricPages(coro.key[2], coro.since_ms, t), OhlcvBatchSize)

\* The fetch_ohlcv calls in flight while caller c waits for a batch, by
\* coroutine and page, with the pages counted as of the instant of the call.
InFlight(c) ==
    IF oc[c].pc # "waiting" THEN {}
    ELSE LET batch == Head(oc[c].batches)
         IN  {f \in (1..Len(batch)) \X (1..OhlcvBatchSize) : f[2] <= FetchesOf(batch[f[1]], oc[c].at)}

\* C29: while a refresh_latest_ohlcv call runs, at most 100 fetch_ohlcv
\* calls are in flight, those of the pages of get_historic_ohlcv included.
C29_AtMost100InFlight == \A c \in DOMAIN oc : Cardinality(InFlight(c)) <= OhlcvBatchSize

\* The distinct keys a call asks for.
Requested(call) == SeqToSet(call.pair_list)

\* The keys of a call whose fetch raised, and those whose fetch came back.
FailedKeys(call) == {k \in DOMAIN call.results : call.results[k].raised}

FetchedKeys(call) == {k \in DOMAIN call.results : ~call.results[k].raised}

\* Two maps agree on a key: both lack it, or both hold the same value.
SameEntry(f, g, k) == (k \in DOMAIN f <=> k \in DOMAIN g) /\ (k \in DOMAIN f => f[k] = g[k])

\* The step in which the gather of caller c resolves and the call returns.
GatherStep(c) == oc[c].pc = "waiting" /\ oc'[c].pc = "returned"

\* The step in which caller c, whose previous call has returned, calls again.
SecondCallStep(c) == oc[c].pc = "returned" /\ oc'[c] # oc[c]

\* The cache entry and the last_refresh_time of the key are what the fetch
\* that completed for it in the call of caller c brought.
BothUpdated(c, k) ==
    /\ k \in FetchedKeys(oc[c])
    /\ oc[c].results[k].ticks # <<>>
    /\ k \in DOMAIN klines
    /\ klines[k] = ohlcv_to_dataframe(oc[c].results[k].ticks, k[2])
    /\ k \in DOMAIN pairs_last_refresh_time
    /\ pairs_last_refresh_time[k] = oc[c].results[k].ticks[Len(oc[c].results[k].ticks)].ts \div 1000

\* Both are as they were before the call, the first of the run: not there.
BothOld(k) == k \notin DOMAIN klines /\ k \notin DOMAIN pairs_last_refresh_time

\* C30: when refresh_latest_ohlcv was cancelled, every key of the call has
\* its cache entry and its last_refresh_time either both as they were or
\* both updated from the one fetch that completed for it.
C30_CancelLeavesNoPartialUpdate ==
    \A c \in DOMAIN oc :
        oc[c].pc = "cancelled" =>
            \A k \in Requested(oc[c]) : BothOld(k) \/ BothUpdated(c, k)

\* C6: when the fetch of one key raises inside refresh_latest_ohlcv, that key
\* alone is left out of the result map and its cache entry and its
\* last_refresh_time stay as they were; every other key of the call that was
\* fetched is in the result (and in the cache when cache is true), and the
\* call returns.
C6_FailureIsolated ==
    [][\A c \in OhlcvCallers : GatherStep(c) =>
          /\ \A k \in FailedKeys(oc'[c]) :
                 /\ k \notin DOMAIN oc'[c].results_df
                 /\ SameEntry(klines, klines', k)
                 /\ SameEntry(pairs_last_refresh_time, pairs_last_refresh_time', k)
          /\ \A k \in FetchedKeys(oc'[c]) :
                 /\ k \in DOMAIN oc'[c].results_df
                 /\ oc'[c].results_df[k] = ohlcv_to_dataframe(oc'[c].results[k].ticks, k[2])
                 /\ oc'[c].cache => k \in DOMAIN klines' /\ klines'[k] = oc'[c].results_df[k]
          /\ Requested(oc'[c]) \ FailedKeys(oc'[c]) = DOMAIN oc'[c].results_df]_vars

\* A call for two keys has returned: the fetch of one raised, the other is in
\* the result and in the cache.
C6_Witness ==
    \E c \in OhlcvCallers :
        /\ oc[c].pc = "returned"
        /\ oc[c].cache
        /\ \E k1, k2 \in Requested(oc[c]) :
               /\ k1 \in FailedKeys(oc[c])
               /\ k1 \notin DOMAIN oc[c].results_df
               /\ k2 \in FetchedKeys(oc[c])
               /\ k2 \in DOMAIN oc[c].results_df
               /\ k2 \in DOMAIN klines

\* C7 as stated: the map refresh_latest_ohlcv returns has an entry for every
\* distinct key of the request.
C7_EveryRequestedKeyReturned ==
    \A c \in OhlcvCallers :
        oc[c].pc = "returned" => DOMAIN oc[c].results_df = Requested(oc[c])

\* C7, amended: the map refresh_latest_ohlcv returns has an entry for exactly
\* the distinct keys of the request whose fetch did not raise; the entry of a
\* fetched key is the normalised fetched series, the entry of any other key
\* is the cache entry.
C7_EveryKeyNotFailedReturned ==
    \A c \in OhlcvCallers :
        oc[c].pc = "returned" =>
            /\ DOMAIN oc[c].results_df = Requested(oc[c]) \ FailedKeys(oc[c])
            /\ \A k \in DOMAIN oc[c].results_df :
                   IF k \in FetchedKeys(oc[c])
                   THEN oc[c].results_df[k] = ohlcv_to_dataframe(oc[c].results[k].ticks, k[2])
                   ELSE k \in DOMAIN klines /\ oc[c].results_df[k] = klines[k]

\* A call that named one key twice and was served from the cache has
\* returned, with one entry.
C7_Witness ==
    \E c \in OhlcvCallers :
        /\ oc[c].pc = "returned"
        /\ Len(oc[c].pair_list) > Cardinality(Requested(oc[c]))
        /\ oc[c].cached_pairs # <<>>
        /\ DOMAIN oc[c].results_df = Requested(oc[c])

\* The step in which caller c calls refresh_latest_ohlcv.
CallStep(c) == oc[c].pc \in {"idle", "returned"} /\ oc'[c] # oc[c]

\* The keys for which the call of caller c scheduled a fetch.
Scheduled(call) == {call.input_coroutines[i].key : i \in 1..Len(call.input_coroutines)}

\* C31: a call with cache = true schedules a fetch for a key that is cached
\* exactly when now >= last_refresh_time + timeframe, the instant of equality
\* included; at every earlier instant the cached entry is served.
C31_FetchFromBoundaryOn ==
    [][\A c \in DOMAIN oc :
           (CallStep(c) /\ oc'[c].cache) =>
               \A k \in Requested(oc'[c]) \cap DOMAIN klines :
                   (k \in Scheduled(oc'[c])) <=>
                       (now >= (IF k \in DOMAIN pairs_last_refresh_time
                                THEN pairs_last_refresh_time[k] ELSE 0) + to_seconds(k[2]))]_vars

C9_EverySuccessSetsRefreshTime ==
    [][\A c \in OhlcvCallers : (GatherStep(c) /\ oc[c].cache) =>
          \A k \in FetchedKeys(oc'[c]) :
              LET ticks == oc'[c].results[k].ticks
              IN  /\ k \in DOMAIN klines'
                  /\ klines'[k] = ohlcv_to_dataframe(ticks, k[2])
                  /\ k \in DOMAIN pairs_last_refresh_time'
                  /\ ticks # <<>> =>
                         pairs_last_refresh_time'[k] = ticks[Len(ticks)].ts \div 1000]_vars

\* C9, amended: a fetch that succeeds with at least one candle sets the key's
\* last_refresh_time to the timestamp (in seconds) of the last candle, and
\* one that succeeds with no candle leaves it as it was; the cache entry is
\* replaced by the normalised series when cache is true and left as it was
\* when cache is false.
C9_SuccessSetsRefreshTimeIfCandles ==
    [][\A c \in OhlcvCallers : GatherStep(c) =>
          \A k \in FetchedKeys(oc'[c]) :
              LET ticks == oc'[c].results[k].ticks
              IN  /\ IF ticks # <<>>
                     THEN /\ k \in DOMAIN pairs_last_refresh_time'
                          /\ pairs_last_refresh_time'[k] = ticks[Len(ticks)].ts \div 1000
                     ELSE SameEntry(pairs_last_refresh_time, pairs_last_refresh_time', k)
                  /\ IF oc[c].cache
                     THEN k \in DOMAIN klines' /\ klines'[k] = ohlcv_to_dataframe(ticks, k[2])
                     ELSE SameEntry(klines, klines', k)]_vars

\* A fetch with candles has succeeded at a time other than the last candle's
\* timestamp, and a fetch without candles has succeeded for a key whose
\* last_refresh_time is not set.
C9_Witness ==
    \E c \in OhlcvCallers :
        /\ oc[c].pc = "returned"
        /\ \E k1, k2 \in FetchedKeys(oc[c]) :
               /\ oc[c].results[k1].ticks # <<>>
               /\ k1 \in DOMAIN pairs_last_refresh_time
               /\ pairs_last_refresh_time[k1] # now
               /\ pairs_last_refresh_time[k1] # oc[c].at
               /\ oc[c].results[k2].ticks = <<>>
               /\ k2 \notin DOMAIN pairs_last_refresh_time
               /\ k2 \in DOMAIN klines

(***************************************************************************)
(* utils/pairlist.py: expand_pairlist.  A pair and a pattern are strings,  *)
(* modelled as sequences of characters.  The patterns use what the         *)
(* configured lists use of the regular expressions: literal characters,    *)
(* "." for any character and a postfix "*".                                *)
(***************************************************************************)

PairBU == <<"B", "/", "U">>

PairEU == <<"E", "/", "U">>

PairAU == <<"A", "/", "U">>

\* ".*/U", "b/u", and "*/U" which re.compile rejects (nothing to repeat).
PatternAnyU == <<".", "*", "/", "U">>

PatternLowerBU == <<"b", "/", "u">>

PatternBad == <<"*", "/", "U">>

\* "E/.*"
PatternEAny == <<"E", "/", ".", "*">>

\* re.IGNORECASE: characters are compared after folding the case.
Fold(ch) ==
    CASE ch = "b" -> "B"
      [] ch = "e" -> "E"
      [] ch = "u" -> "U"
      [] OTHER -> ch

\* re.compile(pair_wc) succeeds: no "*" without something to repeat.
Compiles(pattern) ==
    /\ pattern = <<>> \/ pattern[1] # "*"
    /\ \A i \in 1..(Len(pattern) - 1) : ~(pattern[i] = "*" /\ pattern[i + 1] = "*")

CharMatches(pc, ch) == pc = "." \/ Fold(pc) = Fold(ch)

\* re.fullmatch(comp, pair)
RECURSIVE FullMatch(_, _)
FullMatch(pattern, s) ==
    IF pattern = <<>> THEN s = <<>>
    ELSE IF Len(pattern) >= 2 /\ pattern[2] = "*"
    THEN \/ FullMatch(Tail(Tail(pattern)), s)
         \/ s # <<>> /\ CharMatches(pattern[1], s[1]) /\ FullMatch(pattern, Tail(s))
    ELSE s # <<>> /\ CharMatches(pattern[1], s[1]) /\ FullMatch(Tail(pattern), Tail(s))

\* re.fullmatch(r"^[A-Za-z0-9/-]+$", element)
PairCharacters == {"A", "B", "E", "U", "b", "e", "u", "/", "-"}

IsPairName(element) == element # <<>> /\ \A i \in 1..Len(element) : element[i] \in PairCharacters

\* list.remove(x): the list without the first occurrence of x.
RECURSIVE Remove(_, _)
Remove(list, x) ==
    IF list = <<>> THEN <<>>
    ELSE IF Head(list) = x THEN Tail(list)
    ELSE <<Head(list)>> \o Remove(Tail(list), x)

\* `for element in result: if not re.fullmatch(...): result.remove(element)`:
\* the iterator goes on to the next index of the list it is shortening.
RECURSIVE RemoveWhileIterating(_, _)
RemoveWhileIterating(result, i) ==
    IF i > Len(result) THEN result
    ELSE IF ~IsPairName(result[i]) THEN RemoveWhileIterating(Remove(result, result[i]), i + 1)
    ELSE RemoveWhileIterating(result, i + 1)

\* What a call gives back: a list, or the exception it raised.
Returns(list) == [error |-> "", list |-> list]

Raises(error) == [error |-> error, list |-> <<>>]

\* `raise ValueError(f"Wildcard error in {pair_wc}, {err}")`: the message
\* names the pattern.
WildcardError(pair_wc) == [error |-> "ValueError", list |-> <<>>, pair_wc |-> pair_wc]

\* The mutant of ExpandLoop: the patterns after the first one are not expanded.
ExpandFirstOnly(wildcardpl, available_pairs, keep_invalid, result) ==
    IF wildcardpl = <<>> THEN Returns(result)
    ELSE Returns(SelectSeq(available_pairs, LAMBDA pair : FullMatch(Head(wildcardpl), pair)))

\* The loop over wildcardpl; the first pattern that does not compile raises.
RECURSIVE ExpandLoop(_, _, _, _)
ExpandLoop(wildcardpl, available_pairs, keep_invalid, result) ==
    IF wildcardpl = <<>> THEN Returns(result)
    ELSE LET pair_wc == Head(wildcardpl)
             result_partial == SelectSeq(available_pairs, LAMBDA pair : FullMatch(pair_wc, pair))
         IN  IF ~Compiles(pair_wc) THEN WildcardError(pair_wc)
             ELSE ExpandLoop(Tail(wildcardpl), available_pairs, keep_invalid,
                      result \o (IF keep_invalid /\ result_partial = <<>>
                                 THEN <<pair_wc>> ELSE result_partial))

\* The second loop of the keep_invalid branch, over what the first one returned.
DropInvalid(r) == IF r.error = "" THEN Returns(RemoveWhileIterating(r.list, 1)) ELSE r

expand_pairlist(wildcardpl, available_pairs, keep_invalid) ==
    IF keep_invalid
    THEN DropInvalid(ExpandLoop(wildcardpl, available_pairs, TRUE, <<>>))
    ELSE ExpandLoop(wildcardpl, available_pairs, FALSE, <<>>)

(***************************************************************************)
(* pairlist/manager.py, pairlist/static.py, pairlist/volume.py             *)
(***************************************************************************)

\* list(self.exchange.markets): the markets in the order the exchange lists them.
PairOrder == <<PairBU, PairEU, PairAU>>

ListMarkets(mkts) == SelectSeq(PairOrder, LAMBDA pair : pair \in mkts)

\* PairListManager.verify_allow_list
\* `except ValueError: return []`
EmptyOnValueError(r) == IF r.error = "ValueError" THEN <<>> ELSE r.list

verify_allow_list(pairlist, mkts, keep_invalid) ==
    EmptyOnValueError(expand_pairlist(pairlist, ListMarkets(mkts), keep_invalid))

\* The mutant of FilterChain: the later handlers are not run.
FilterChainSkipped(handlers, r, tickers, cfg, mkts, blk) == r

\* The mutant of verify_block_list: nothing is removed.
VerifyNothing(pairlist, blk, mkts) == pairlist

\* The mutant of RemoveBlocked: the ValueError is not turned into an empty list.
RemoveBlockedOnly(pairlist, r) ==
    SelectSeq(pairlist, LAMBDA pair : pair \notin SeqToSet(r.list))

\* PairListManager.verify_block_list, with expanded_block_list
\* The loop of verify_block_list over the expanded block-list.
RemoveBlocked(pairlist, r) ==
    IF r.error = "ValueError" THEN <<>>
    ELSE SelectSeq(pairlist, LAMBDA pair : pair \notin SeqToSet(r.list))

verify_block_list(pairlist, blk, mkts) ==
    RemoveBlocked(pairlist, expand_pairlist(blk, ListMarkets(mkts), FALSE))

\* The loop of _allow_list_for_active_markets: pairs that are not in the
\* markets are dropped, and so is a pair that is in the result already.
RECURSIVE Sanitized(_, _, _)
Sanitized(pairlist, mkts, acc) ==
    IF pairlist = <<>> THEN acc
    ELSE Sanitized(Tail(pairlist), mkts,
             IF Head(pairlist) \in mkts /\ Head(pairlist) \notin SeqToSet(acc)
             THEN Append(acc, Head(pairlist)) ELSE acc)

allow_list_for_active_markets(pairlist, mkts) ==
    IF mkts = {} THEN Raises("OperationalException") ELSE Returns(Sanitized(pairlist, mkts, <<>>))

\* The handlers a configuration can name.
StaticPairList(allow_inactive) ==
    [name |-> "StaticPairList", allow_inactive |-> allow_inactive, number_assets |-> 0, min_value |-> 0]

VolumePairList(number_assets, min_value) ==
    [name |-> "VolumePairList", allow_inactive |-> FALSE, number_assets |-> number_assets,
     min_value |-> min_value]

needstickers(handler) == handler.name = "VolumePairList"

\* The mutant of TickersNeeded: only the first handler is asked.
TickersNeededByFirst(needed, handlers) ==
    needed \/ (handlers # <<>> /\ needstickers(handlers[1]))

\* `for handler in self._pairlist_handlers: self._tickers_needed |= handler.needstickers`
TickersNeeded(needed, handlers) ==
    needed \/ \E i \in 1..Len(handlers) : needstickers(handlers[i])

\* StaticPairList.gen_pairlist
StaticGen(handler, cfg, mkts) ==
    IF handler.allow_inactive
    THEN Returns(verify_allow_list(cfg.pair_allow_list, mkts, TRUE))
    ELSE allow_list_for_active_markets(verify_allow_list(cfg.pair_allow_list, mkts, FALSE), mkts)

\* The mutant of StaticFilter: the allow-list replaces the incoming list.
StaticFilterReplaces(pairlist, pair_allow_list) == pair_allow_list

\* StaticPairList.filter_pairlist
RECURSIVE StaticFilter(_, _)
StaticFilter(pairlist, pair_allow_list) ==
    IF pair_allow_list = <<>> THEN pairlist
    ELSE StaticFilter(IF Head(pair_allow_list) \in SeqToSet(pairlist) THEN pairlist
                      ELSE Append(pairlist, Head(pair_allow_list)),
                      Tail(pair_allow_list))

\* A ticker of the snapshot fetch_tickers returns.
Ticker(symbol, quoteVolume) == [symbol |-> symbol, quoteVolume |-> quoteVolume]

\* sorted(filtered_tickers, reverse=True, key=operator.itemgetter("quoteVolume")):
\* descending, tickers of equal volume keep their order.
RECURSIVE SortByVolume(_)
SortByVolume(tks) ==
    IF tks = <<>> THEN <<>>
    ELSE LET rest == SortByVolume(Tail(tks))
             before == SelectSeq(rest, LAMBDA tk : tk.quoteVolume > Head(tks).quoteVolume)
             after == SelectSeq(rest, LAMBDA tk : tk.quoteVolume <= Head(tks).quoteVolume)
         IN  before \o <<Head(tks)>> \o after

Symbols(tks) == [i \in 1..Len(tks) |-> tks[i].symbol]

\* The currency every configured market is quoted in, and the stake currency.
StakeCurrency == "U"

\* Exchange.get_pair_quote_currency
get_pair_quote_currency(pair, mkts) == IF pair \in mkts THEN pair[Len(pair)] ELSE ""

\* VolumePairList.filter_pairlist without a lookback range (lookback_period = 0)
\* pairs[: number_assets]
FirstN(pairs, n) == SubSeq(pairs, 1, Min(n, Len(pairs)))

\* `if self.config.min_value > 0`: the tickers above the minimum.
AboveMinimum(tks, min_value) ==
    IF min_value > 0 THEN SelectSeq(tks, LAMBDA tk : tk.quoteVolume > min_value) ELSE tks

\* The mutant of BlockAndCut: the list is cut before the block-list is applied.
CutAndBlock(active, handler, mkts, blk) ==
    IF active.error # "" THEN active
    ELSE Returns(verify_block_list(FirstN(active.list, handler.number_assets), blk, mkts))

\* The end of VolumePairList.filter_pairlist: the block-list and the cut.
BlockAndCut(active, handler, mkts, blk) ==
    IF active.error # "" THEN active
    ELSE Returns(FirstN(verify_block_list(active.list, blk, mkts), handler.number_assets))

VolumeFilter(handler, pairlist, tickers, mkts, blk) ==
    BlockAndCut(
        allow_list_for_active_markets(
            Symbols(SortByVolume(AboveMinimum(
                SelectSeq(tickers, LAMBDA tk : tk.symbol \in SeqToSet(pairlist)),
                handler.min_value))),
            mkts),
        handler, mkts, blk)

\* The default refresh_period of a handler, the ttl of VolumePairList._pair_cache.
RefreshPeriod == 1800

\* TTLCache(maxsize=1, ttl=1800) of _get_cached_tickers
TickersTTL == 1800

\* A TTLCache entry stored at `at` is gone once ttl seconds have passed.
NoEntry == [has |-> FALSE, at |-> 0, value |-> <<>>]

Entry(at, value) == [has |-> TRUE, at |-> at, value |-> value]

Cached(entry, ttl, t) == entry.has /\ t < entry.at + ttl

\* VolumePairList.gen_pairlist: the list and the _pair_cache it leaves.
\* What a handler call leaves: its result and the handler's _pair_cache.
WithCache(r, cache) == [error |-> r.error, list |-> r.list, cache |-> cache]

\* `self._pair_cache["pairlist"] = pairlist.copy()`
StorePairlist(r, cache, t) ==
    IF r.error # "" THEN WithCache(r, cache) ELSE WithCache(r, Entry(t, r.list))

VolumeGen(handler, tickers, mkts, blk, cache, t) ==
    IF Cached(cache, RefreshPeriod, t) /\ cache.value # <<>>
    THEN [error |-> "", list |-> cache.value, cache |-> cache]
    ELSE StorePairlist(
             VolumeFilter(handler,
                 Symbols(SelectSeq(tickers,
                     LAMBDA tk : get_pair_quote_currency(tk.symbol, mkts) = StakeCurrency)),
                 tickers, mkts, blk),
             cache, t)

\* A handler that overrides _validate_pair and inherits gen_pairlist and
\* filter_pairlist of PairList.
FilterOnly ==
    [name |-> "PairList", allow_inactive |-> FALSE, number_assets |-> 0, min_value |-> 0]

\* handler.gen_pairlist(tickers) of the first handler of the chain;
\* PairList.gen_pairlist raises.
GenPairlist(handler, tickers, cfg, mkts, blk, cache, t) ==
    IF handler.name = "PairList"
    THEN WithCache(Raises("OperationalException"), cache)
    ELSE IF handler.name = "StaticPairList"
    THEN WithCache(StaticGen(handler, cfg, mkts), cache)
    ELSE VolumeGen(handler, tickers, mkts, blk, cache, t)

\* handler.filter_pairlist(pairlist, tickers) of a later handler
FilterPairlist(handler, pairlist, tickers, cfg, mkts, blk) ==
    IF handler.name = "StaticPairList"
    THEN Returns(StaticFilter(pairlist, cfg.pair_allow_list))
    ELSE VolumeFilter(handler, pairlist, tickers, mkts, blk)

\* The mutant of FilterChain: the filters run also after a handler raised.
RECURSIVE FilterChainDespiteErrors(_, _, _, _, _, _)
FilterChainDespiteErrors(handlers, r, tickers, cfg, mkts, blk) ==
    IF handlers = <<>> THEN r
    ELSE FilterChainDespiteErrors(Tail(handlers),
             WithCache(FilterPairlist(Head(handlers), r.list, tickers, cfg, mkts, blk), r.cache),
             tickers, cfg, mkts, blk)

\* `for pairlist_handler in self._pairlist_handlers[1:]`
RECURSIVE FilterChain(_, _, _, _, _, _)
FilterChain(handlers, r, tickers, cfg, mkts, blk) ==
    IF handlers = <<>> \/ r.error # "" THEN r
    ELSE FilterChain(Tail(handlers),
             WithCache(FilterPairlist(Head(handlers), r.list, tickers, cfg, mkts, blk), r.cache),
             tickers, cfg, mkts, blk)

\* `pairlist = self.verify_block_list(pairlist)` on what the chain returned.
VerifyChain(r, blk, mkts) ==
    IF r.error # "" THEN r ELSE [r EXCEPT !.list = verify_block_list(r.list, blk, mkts)]

\* refresh_pairlist from the generator to verify_block_list: the list to
\* store, or the exception that ends the call, and the handler's _pair_cache.
RunChain(handlers, tickers, cfg, mkts, blk, cache, t) ==
    IF handlers = <<>> THEN [error |-> "IndexError", list |-> <<>>, cache |-> cache]
    ELSE VerifyChain(FilterChain(Tail(handlers),
                                 GenPairlist(Head(handlers), tickers, cfg, mkts, blk, cache, t),
                                 tickers, cfg, mkts, blk),
                     blk, mkts)

\* The configured lists and handler chains (pairlists has at least one item).
AllowLists == {<<PairBU, PairEU>>, <<PatternAnyU>>}

BlockLists ==
    {<<>>, <<PairEU>>, <<PatternAnyU>>, <<PatternLowerBU>>, <<PairEU, PatternBad>>, <<PatternEAny>>}

\* init_handler passes no allow_inactive, so that a handler the manager
\* builds has the default, False.
Chains ==
    {<<StaticPairList(FALSE)>>,
     <<StaticPairList(FALSE), StaticPairList(FALSE)>>,
     <<VolumePairList(1, 0)>>, <<VolumePairList(2, 0), StaticPairList(FALSE)>>,
     <<StaticPairList(FALSE), VolumePairList(2, 0), VolumePairList(1, 0)>>}

Configs == [pair_allow_list : AllowLists, pair_block_list : BlockLists, pairlists : Chains]

\* What fetch_tickers may return.
TickerSnapshots ==
    {<<Ticker(PairBU, 5), Ticker(PairEU, 7)>>, <<Ticker(PairBU, 7), Ticker(PairEU, 5)>>}

\* The instants (seconds) at which the monotonic clock of the caches is read.
MonoValues == {0, 1799, 1800}

\* The tasks that call refresh_pairlist.
Refreshers == {"r1", "r2"}

\* How many times fetch_tickers is called at most.
MaxTickerFetches == 2

\* A task that is not inside refresh_pairlist.
NoRefresh == [pc |-> "idle", error |-> "", hit |-> FALSE, tickers |-> <<>>, list |-> <<>>]

\* The manager after construction.
ManagerConstructed ==
    /\ allow_list = <<>>
    /\ block_list = <<>>
    /\ pairlist_handlers = <<>>
    /\ tickers_needed = FALSE
    /\ tickers_cache = NoEntry
    /\ pair_cache = NoEntry
    /\ mono = 0
    /\ rp = [c \in Refreshers |-> NoRefresh]
    /\ fetch_tickers_calls = 0
    /\ pairs_emitted = {}

PairlistInit == pl_config \in Configs /\ ManagerConstructed

PairlistRest ==
    /\ pl_config = <<>>
    /\ allow_list = <<>>
    /\ block_list = <<>>
    /\ pairlist_handlers = <<>>
    /\ tickers_needed = FALSE
    /\ tickers_cache = NoEntry
    /\ pair_cache = NoEntry
    /\ mono = 0
    /\ rp = <<>>
    /\ fetch_tickers_calls = 0
    /\ pairs_emitted = {}

\* The markets are loaded and no get_markets call is under way.
MarketsLoaded ==
    /\ markets \in MarketMaps
    /\ gm_pc = <<>>
    /\ load_calls = 0
    /\ loads_empty = 0
    /\ loads_failed = 0
    /\ markets_emits = 0
    /\ gm_calls = 0

\* PairListManager._populate_internal_config, the on_start subscriber.
PopulateInternalConfig ==
    /\ pairlist_handlers = <<>>
    /\ pairlist_handlers' = pairlist_handlers \o pl_config.pairlists
    /\ allow_list' = allow_list \o pl_config.pair_allow_list
    /\ block_list' = block_list \o pl_config.pair_block_list
    /\ tickers_needed' = TickersNeeded(tickers_needed, pairlist_handlers')
    /\ UNCHANGED <<pl_config, tickers_cache, pair_cache, mono, rp, fetch_tickers_calls, pairs_emitted>>

\* The monotonic clock advances.
MonoTick(t) ==
    /\ t > mono
    /\ mono' = t
    /\ UNCHANGED <<pl_config, allow_list, block_list, pairlist_handlers, tickers_needed,
                   tickers_cache, pair_cache, rp, fetch_tickers_calls, pairs_emitted>>
    /\ UNCHANGED notPairlist

\* The mutant of StoreAndEmit: the result is emitted but not stored.
StoreAndEmitUnstored(c, hit, tickers, r) ==
    /\ pair_cache' = r.cache
    /\ pairs_emitted' = IF r.error # "" THEN pairs_emitted ELSE pairs_emitted \cup {r.list}
    /\ rp' = [rp EXCEPT ![c] = [pc |-> IF r.error # "" THEN "raised" ELSE "emitting",
                                 error |-> r.error, hit |-> hit, tickers |-> tickers,
                                 list |-> r.list]]
    /\ UNCHANGED allow_list

\* The mutant of StoreAndEmit: what the chain had when it raised is stored
\* and emitted.
StoreAndEmitDespiteError(c, hit, tickers, r) ==
    /\ pair_cache' = r.cache
    /\ allow_list' = r.list
    /\ pairs_emitted' = pairs_emitted \cup {r.list}
    /\ rp' = [rp EXCEPT ![c] = [pc |-> IF r.error # "" THEN "raised" ELSE "emitting",
                                 error |-> r.error, hit |-> hit, tickers |-> tickers,
                                 list |-> r.list]]

\* refresh_pairlist from the handler chain on: the chain runs, the
\* block-list is applied, the result is stored and pairs-available is
\* emitted; an exception of the chain ends the call.
StoreAndEmit(c, hit, tickers, r) ==
    /\ pair_cache' = r.cache
    /\ IF r.error # ""
       THEN /\ rp' = [rp EXCEPT ![c] = [pc |-> "raised", error |-> r.error, hit |-> hit,
                                         tickers |-> tickers, list |-> <<>>]]
            /\ UNCHANGED <<allow_list, pairs_emitted>>
       ELSE /\ allow_list' = r.list
            /\ pairs_emitted' = pairs_emitted \cup {r.list}
            /\ rp' = [rp EXCEPT ![c] = [pc |-> "emitting", error |-> "", hit |-> hit,
                                         tickers |-> tickers, list |-> r.list]]

ChainAndStore(c, hit, tickers) ==
    \E r \in {RunChain(pairlist_handlers, tickers, pl_config, markets, block_list, pair_cache, mono)} :
        StoreAndEmit(c, hit, tickers, r)

\* refresh_pairlist up to its first suspension.  When tickers are needed,
\* the memoised _get_cached_tickers hands out the coroutine object it holds,
\* or makes and stores a new one when it holds none that is younger than the
\* ttl.  A new coroutine runs get_tickers, which calls fetch_tickers; a
\* coroutine that is being awaited or was awaited raises RuntimeError in the
\* task that awaits it again.
RefreshPairlist(c) ==
    /\ rp[c].pc \in {"idle", "done", "raised"}
    /\ IF ~tickers_needed
       THEN /\ ChainAndStore(c, FALSE, <<>>)
            /\ UNCHANGED <<tickers_cache, fetch_tickers_calls>>
       ELSE IF Cached(tickers_cache, TickersTTL, mono)
       THEN /\ rp' = [rp EXCEPT ![c] = [pc |-> "raised", error |-> "RuntimeError", hit |-> TRUE,
                                         tickers |-> <<>>, list |-> <<>>]]
            /\ UNCHANGED <<tickers_cache, fetch_tickers_calls, allow_list, pairs_emitted, pair_cache>>
       ELSE /\ fetch_tickers_calls < MaxTickerFetches
            /\ tickers_cache' = Entry(mono, <<c>>)
            /\ fetch_tickers_calls' = fetch_tickers_calls + 1
            /\ rp' = [rp EXCEPT ![c] = [pc |-> "tickers", error |-> "", hit |-> FALSE,
                                         tickers |-> <<>>, list |-> <<>>]]
            /\ UNCHANGED <<allow_list, pairs_emitted, pair_cache>>
    /\ UNCHANGED <<pl_config, block_list, pairlist_handlers, tickers_needed, mono>>

\* fetch_tickers returns: get_tickers emits tickers-available and returns
\* the snapshot, and the refresh goes on with the chain.
TickersFetched(c, tickers) ==
    /\ rp[c].pc = "tickers"
    /\ ChainAndStore(c, FALSE, tickers)
    /\ UNCHANGED <<pl_config, block_list, pairlist_handlers, tickers_needed, mono,
                   tickers_cache, fetch_tickers_calls>>

\* fetch_tickers raises: the exception ends the refresh.
TickersFailed(c) ==
    /\ rp[c].pc = "tickers"
    /\ rp' = [rp EXCEPT ![c] = [@ EXCEPT !.pc = "raised", !.error = "Exception"]]
    /\ UNCHANGED <<pl_config, allow_list, block_list, pairlist_handlers, tickers_needed,
                   tickers_cache, pair_cache, mono, fetch_tickers_calls, pairs_emitted>>

\* The emit of pairs-available returns and so does refresh_pairlist.
PairsEmitDone(c) ==
    /\ rp[c].pc = "emitting"
    /\ rp' = [rp EXCEPT ![c] = [@ EXCEPT !.pc = "done"]]
    /\ UNCHANGED <<pl_config, allow_list, block_list, pairlist_handlers, tickers_needed,
                   tickers_cache, pair_cache, mono, fetch_tickers_calls, pairs_emitted>>

\* The manager on its own: the other components do not move.
PairlistNext ==
    \/ PopulateInternalConfig /\ UNCHANGED notPairlist
    \/ \E t \in MonoValues : MonoTick(t)
    \/ \E c \in Refreshers : RefreshPairlist(c) /\ UNCHANGED notPairlist
    \/ \E c \in Refreshers, tickers \in TickerSnapshots :
           TickersFetched(c, tickers) /\ UNCHANGED notPairlist
    \/ \E c \in Refreshers : TickersFailed(c) /\ UNCHANGED notPairlist
    \/ \E c \in Refreshers : PairsEmitDone(c) /\ UNCHANGED notPairlist

\* A pattern of the manager's block-list compiles and full-matches the pair.
BlockListMatches(pair) ==
    \E j \in 1..Len(block_list) : Compiles(block_list[j]) /\ FullMatch(block_list[j], pair)

RefreshStarts(c) == rp[c].pc \in {"idle", "done", "raised"} /\ rp'[c] # rp[c]

\* The refresh of the task c awaited _get_cached_tickers.
TickersRequested(c) == rp[c].pc = "tickers" \/ rp[c].hit

\* C11: a refresh_pairlist asks for tickers exactly when a handler of the
\* chain has needstickers; fetch_tickers is called only in the step that
\* enters a refresh, at most once in it, and not at all when no handler
\* needs tickers, in which case the chain runs on an empty ticker map.
C11_TickersIffNeeded ==
    [][\A c \in Refreshers :
           IF RefreshStarts(c)
           THEN /\ (TickersRequested(c)' <=>
                       \E i \in 1..Len(pairlist_handlers) : needstickers(pairlist_handlers[i]))
                /\ fetch_tickers_calls' \in {fetch_tickers_calls, fetch_tickers_calls + 1}
                /\ (~TickersRequested(c)' =>
                       /\ fetch_tickers_calls' = fetch_tickers_calls
                       /\ rp'[c].pc \in {"emitting", "raised"}
                       /\ rp'[c].tickers = <<>>)
           ELSE (\A d \in Refreshers : ~RefreshStarts(d)) =>
                    fetch_tickers_calls' = fetch_tickers_calls]_vars

\* A refresh of a chain whose first handler needs no tickers and whose two
\* later handlers need them has run the chain on the one snapshot fetched.
C11_Witness ==
    /\ pairlist_handlers # <<>>
    /\ ~needstickers(pairlist_handlers[1])
    /\ Cardinality({i \in 1..Len(pairlist_handlers) : needstickers(pairlist_handlers[i])}) = 2
    /\ fetch_tickers_calls = 1
    /\ \E c \in Refreshers : rp[c].pc = "done" /\ rp[c].tickers \in TickerSnapshots

\* A step in which the refresh of the task c stores its list.
RefreshStores(c) == rp[c].pc # "emitting" /\ rp'[c].pc = "emitting"

\* h0.generate(t), then h1.filter(., t), then h2.filter(., t), written out
\* for the chains of one, two and three handlers.
Piped(handlers, tickers) ==
    LET h0 == GenPairlist(handlers[1], tickers, pl_config, markets, block_list, pair_cache, mono)
        h1 == FilterPairlist(handlers[2], h0.list, tickers, pl_config, markets, block_list)
        h2 == FilterPairlist(handlers[3], h1.list, tickers, pl_config, markets, block_list)
    IN  CASE Len(handlers) = 1 -> h0.list
          [] Len(handlers) = 2 -> h1.list
          [] Len(handlers) = 3 -> h2.list

\* C12: the list a refresh_pairlist stores is verify_block_list of the
\* first handler's generated list passed through the filter of every later
\* handler in chain order, all on the same ticker snapshot; the chain
\* [StaticPairList] with allow-list [B/U, E/U], both in the markets, and
\* block-list [E/.*] stores exactly [B/U].
C12_ChainInOrder ==
    [][\A c \in Refreshers :
           RefreshStores(c) =>
               /\ rp'[c].list =
                      verify_block_list(Piped(pairlist_handlers, rp'[c].tickers), block_list, markets)
               /\ allow_list' = rp'[c].list
               /\ (/\ pairlist_handlers = <<StaticPairList(FALSE)>>
                   /\ pl_config.pair_allow_list = <<PairBU, PairEU>>
                   /\ markets = {PairBU, PairEU}
                   /\ block_list = <<PatternEAny>>) => rp'[c].list = <<PairBU>>]_vars

\* A refresh has stored and emitted the list of the instance.
C12_Witness ==
    \E c \in Refreshers :
        /\ rp[c].pc = "done"
        /\ rp[c].list = <<PairBU>>
        /\ allow_list = <<PairBU>>
        /\ pairlist_handlers = <<StaticPairList(FALSE)>>
        /\ pl_config.pair_allow_list = <<PairBU, PairEU>>
        /\ markets = {PairBU, PairEU}
        /\ block_list = <<PatternEAny>>

\* C13: a refresh_pairlist completes only from its one emit of
\* pairs-available, which it enters in the step that stores the result as
\* the allow-list and leaves only by completing; the list emitted is the
\* allow-list of that moment.
C13_EmitsStoredListOnce ==
    [][\A c \in Refreshers :
           /\ (rp[c].pc # "done" /\ rp'[c].pc = "done") =>
                  (rp[c].pc = "emitting" /\ rp'[c].list = rp[c].list)
           /\ (rp[c].pc = "emitting" /\ rp'[c] # rp[c]) => rp'[c].pc = "done"
           /\ RefreshStores(c) =>
                  /\ allow_list' = rp'[c].list
                  /\ rp'[c].list \in pairs_emitted'
                  /\ \A d \in Refreshers \ {c} : rp'[d] = rp[d]]_vars

\* A refresh has completed after a later refresh of the other task stored
\* a different allow-list.
C13_Witness ==
    \E c, d \in Refreshers :
        /\ rp[c].pc = "done"
        /\ rp[d].pc \in {"emitting", "done"}
        /\ rp[c].list # rp[d].list
        /\ allow_list = rp[d].list
        /\ {rp[c].list, rp[d].list} \subseteq pairs_emitted

\* A pattern of the block-list is not a valid regular expression.
InvalidBlockList(blk) == \E j \in 1..Len(blk) : ~Compiles(blk[j])

\* The lists verify_block_list is tried on.
VerifyInputs == {<<>>, <<PairBU>>, <<PairEU, PairBU>>, <<PatternAnyU, PairBU>>}

\* verify_block_list returns the empty list whenever the block-list has a
\* pattern that is not valid.
VerifyBlockListEmptyOnInvalid ==
    \A pairlist \in VerifyInputs, blk \in BlockLists, mkts \in MarketMaps :
        InvalidBlockList(blk) => verify_block_list(pairlist, blk, mkts) = <<>>

C4_RefreshWithinTTLCompletes ==
    \A c \in Refreshers : rp[c].hit => rp[c].pc # "raised"

(***************************************************************************)
(* cli/abc.py CLIService.run and the subscribers of on_start,              *)
(* markets-available and pairs-available: the startup of the service.      *)
(* Every action runs one task from where it was resumed to where it        *)
(* suspends next.                                                          *)
(***************************************************************************)

\* The task of Exchange._on_start, of PairListManager._populate_internal_config,
\* of PairListManager._on_markets_available and of Exchange._on_pairs_available.
NoTasks == [main |-> "init", ex |-> "none", pop |-> "none", ma |-> "none", pa |-> "none"]

\* The task in which refresh_pairlist and refresh_latest_ohlcv run at startup.
StartupRefresher == "r1"

StartupFetcher == "trader"

StartupInit ==
    /\ su = NoTasks
    /\ ready = <<>>
    /\ trace = <<>>
    /\ pa_todo = <<>>

StartupRest ==
    /\ su = <<>>
    /\ ready = <<>>
    /\ trace = <<>>
    /\ pa_todo = <<>>

\* A startup step that happened; pair is the pair of a refresh_latest_ohlcv
\* call and empty for the other steps.
Step(step) == [step |-> step, pair |-> ""]

Prefetch(pair) == [step |-> "refresh_latest_ohlcv", pair |-> pair]

\* how_many_days = 1
HowManyDays == 1

\* arrow.utcnow().floor("days").shift(days=-how_many_days).int_timestamp * 1000
StartupSince(t) == ((t \div 86400) * 86400 - HowManyDays * 86400) * 1000

\* The mutant of PrefetchPairs: no pair is fetched.
PrefetchNothing(pairs) == <<>>

\* `for pair in pairs: ... coros.append(self.refresh_latest_ohlcv(...))`
PrefetchPairs(pairs) == pairs

\* CLIService.run up to the gather of on_start.emit: a task per subscriber,
\* in the order in which the subscribers registered.
RunEmitOnStart ==
    /\ su.main = "init"
    /\ su' = [su EXCEPT !.main = "on_start", !.ex = "ready", !.pop = "ready"]
    /\ ready' \in {<<"ex", "pop">>, <<"pop", "ex">>}
    /\ trace' = Append(trace, Step("on_start"))
    /\ UNCHANGED pa_todo
    /\ UNCHANGED <<runVars, callVars, retryVars, emitVars, marketVars, ohlcvVars, pairlistVars>>

\* Exchange._on_start: get_markets finds no markets and awaits load_markets.
ExchangeOnStart ==
    /\ ready # <<>> /\ Head(ready) = "ex"
    /\ su' = [su EXCEPT !.ex = IF NeedsLoad(markets) THEN "load_markets" ELSE "done"]
    /\ ready' = Tail(ready)
    /\ UNCHANGED <<trace, pa_todo>>
    /\ UNCHANGED <<runVars, callVars, retryVars, emitVars, marketVars, ohlcvVars, pairlistVars>>

\* The task of _populate_internal_config runs; it does not suspend.
StartupPopulate ==
    /\ ready # <<>> /\ Head(ready) = "pop"
    /\ PopulateInternalConfig
    /\ su' = [su EXCEPT !.pop = "done"]
    /\ ready' = Tail(ready)
    /\ UNCHANGED <<trace, pa_todo>>
    /\ UNCHANGED <<runVars, callVars, retryVars, emitVars, marketVars, ohlcvVars>>

\* The mutant of LoadMarketsReturn: the task of _on_markets_available runs
\* ahead of the tasks that are ready.
LoadMarketsAhead(m) ==
    /\ su.ex = "load_markets"
    /\ markets' = m
    /\ su' = [su EXCEPT !.ex = "emit_markets", !.ma = "ready"]
    /\ ready' = <<"ma">> \o ready
    /\ trace' = trace \o <<Step("load_markets"), Step("markets_available")>>
    /\ UNCHANGED <<gm_pc, load_calls, loads_empty, loads_failed, markets_emits, gm_calls>>
    /\ UNCHANGED pa_todo
    /\ UNCHANGED <<runVars, callVars, retryVars, emitVars, ohlcvVars, pairlistVars>>

\* load_markets returns (the loop has no task left that is ready):
\* get_markets stores the markets and emits markets-available, which makes
\* the task of _on_markets_available.
LoadMarketsReturn(m) ==
    /\ su.ex = "load_markets"
    /\ ready = <<>>
    /\ markets' = m
    /\ su' = [su EXCEPT !.ex = "emit_markets", !.ma = "ready"]
    /\ ready' = <<"ma">>
    /\ trace' = trace \o <<Step("load_markets"), Step("markets_available")>>
    /\ UNCHANGED <<gm_pc, load_calls, loads_empty, loads_failed, markets_emits, gm_calls>>
    /\ UNCHANGED pa_todo
    /\ UNCHANGED <<runVars, callVars, retryVars, emitVars, ohlcvVars, pairlistVars>>

\* An exception of a subscriber reaches run through the gathers.
StartupFails(task) ==
    [su EXCEPT ![task] = "failed", !.ex = "failed", !.main = "failed"]

\* load_markets raises.
LoadMarketsRaise ==
    /\ su.ex = "load_markets"
    /\ ready = <<>>
    /\ su' = StartupFails("ex")
    /\ UNCHANGED <<ready, trace, pa_todo>>
    /\ UNCHANGED <<runVars, callVars, retryVars, emitVars, marketVars, ohlcvVars, pairlistVars>>

\* Where refresh_pairlist left the task of _on_markets_available: waiting
\* for the tickers, ended by an exception, or waiting in the emit of
\* pairs-available for the task of _on_pairs_available.
AfterRefreshPairlist ==
    CASE rp'[StartupRefresher].pc = "tickers" ->
             /\ su' = [su EXCEPT !.ma = "tickers"]
             /\ UNCHANGED <<trace, pa_todo>>
             /\ ready' = <<>>
      [] rp'[StartupRefresher].pc = "raised" ->
             /\ su' = StartupFails("ma")
             /\ trace' = Append(trace, Step("chain"))
             /\ UNCHANGED pa_todo
             /\ ready' = <<>>
      [] rp'[StartupRefresher].pc = "emitting" ->
             /\ su' = [su EXCEPT !.ma = "emit_pairs", !.pa = "ready"]
             /\ trace' = trace \o <<Step("chain"), Step("pairs_available")>>
             /\ pa_todo' = PrefetchPairs(rp'[StartupRefresher].list)
             /\ ready' = <<"pa">>

\* The task of _on_markets_available runs refresh_pairlist.
OnMarketsAvailable ==
    /\ ready # <<>> /\ Head(ready) = "ma"
    /\ RefreshPairlist(StartupRefresher)
    /\ AfterRefreshPairlist
    /\ UNCHANGED <<runVars, callVars, retryVars, emitVars, marketVars, ohlcvVars>>

\* fetch_tickers returns and refresh_pairlist goes on.
StartupTickersReturn(tickers) ==
    /\ su.ma = "tickers"
    /\ ready = <<>>
    /\ TickersFetched(StartupRefresher, tickers)
    /\ AfterRefreshPairlist
    /\ UNCHANGED <<runVars, callVars, retryVars, emitVars, marketVars, ohlcvVars>>

\* fetch_tickers raises.
StartupTickersRaise ==
    /\ su.ma = "tickers"
    /\ ready = <<>>
    /\ TickersFailed(StartupRefresher)
    /\ su' = StartupFails("ma")
    /\ UNCHANGED <<ready, trace, pa_todo>>
    /\ UNCHANGED <<runVars, callVars, retryVars, emitVars, marketVars, ohlcvVars>>

\* The task of _on_pairs_available is at the head of the ready queue, or is
\* running between two of its awaits.
PairsTaskRuns == su.pa = "next" \/ (su.pa = "ready" /\ ready # <<>> /\ Head(ready) = "pa")

\* _on_pairs_available awaits the next of its coroutines:
\* refresh_latest_ohlcv([(pair, "1m")], since_ms=since_ms).
PrefetchCall ==
    /\ PairsTaskRuns
    /\ pa_todo # <<>>
    /\ \E order \in Orderings({<<Head(pa_todo), tf1m>>}) :
           RefreshLatestOhlcv(StartupFetcher, <<<<Head(pa_todo), tf1m>>>>, StartupSince(now), TRUE, order)
    /\ su' = [su EXCEPT !.pa = IF oc'[StartupFetcher].pc = "waiting" THEN "ohlcv" ELSE "next"]
    /\ ready' = <<>>
    /\ trace' = Append(trace, Prefetch(Head(pa_todo)))
    /\ pa_todo' = Tail(pa_todo)
    /\ UNCHANGED <<runVars, callVars, retryVars, emitVars, marketVars, pairlistVars>>

\* The gather of that refresh_latest_ohlcv resolves and the call returns.
PrefetchGatherDone(answers) ==
    /\ su.pa = "ohlcv"
    /\ GatherDone(StartupFetcher, answers)
    /\ su' = [su EXCEPT !.pa = "next"]
    /\ UNCHANGED <<ready, trace, pa_todo>>
    /\ UNCHANGED <<runVars, callVars, retryVars, emitVars, marketVars, pairlistVars>>

\* _on_pairs_available has awaited all its coroutines and returns: the emit
\* of pairs-available, refresh_pairlist, the emit of markets-available,
\* get_markets and the emit of on_start return in turn, and run goes on to work.
StartupComplete ==
    /\ PairsTaskRuns
    /\ pa_todo = <<>>
    /\ PairsEmitDone(StartupRefresher)
    /\ su' = [su EXCEPT !.pa = "done", !.ma = "done", !.ex = "done", !.main = "work"]
    /\ ready' = <<>>
    /\ UNCHANGED <<trace, pa_todo>>
    /\ UNCHANGED <<runVars, callVars, retryVars, emitVars, marketVars, ohlcvVars>>

StartupNext ==
    \/ RunEmitOnStart
    \/ ExchangeOnStart
    \/ StartupPopulate
    \/ \E m \in MarketMaps : LoadMarketsReturn(m)
    \/ LoadMarketsRaise
    \/ OnMarketsAvailable
    \/ \E tickers \in TickerSnapshots : StartupTickersReturn(tickers)
    \/ StartupTickersRaise
    \/ PrefetchCall
    \/ \E a \in BatchAnswers(StartupFetcher) : PrefetchGatherDone(a)
    \/ StartupComplete

\* The startup steps in the order of the control flow.
StartupSteps ==
    <<"on_start", "load_markets", "markets_available", "chain", "pairs_available",
      "refresh_latest_ohlcv">>

\* The places in the trace at which a step happened.
Happened(step) == {i \in 1..Len(trace) : trace[i].step = step}

RECURSIVE PrefetchedPairs(_)
\* The pairs for which refresh_latest_ohlcv was called, in the order of the calls.
PrefetchedPairs(tr) ==
    IF tr = <<>> THEN <<>>
    ELSE IF Head(tr).step = "refresh_latest_ohlcv"
         THEN <<Head(tr).pair>> \o PrefetchedPairs(Tail(tr))
         ELSE PrefetchedPairs(Tail(tr))

\* No step happened before the step that precedes it in the control flow.
StartupInOrder ==
    \A k \in 2..Len(StartupSteps) :
        \A i \in Happened(StartupSteps[k]) :
            \E j \in Happened(StartupSteps[k - 1]) : j < i

\* What the steps leave behind is there when the next step happens: the
\* markets-available event carries what load_markets returned, the chain runs
\* on the handlers of the configuration, pairs-available carries the chain's
\* result, and refresh_latest_ohlcv is called for pairs of that result only,
\* each with the 1m timeframe in the caller's request.
StartupCarriesResults ==
    /\ Happened("chain") # {} => pairlist_handlers = pl_config.pairlists
    /\ Happened("pairs_available") # {} =>
           /\ rp[StartupRefresher].pc \in {"emitting", "done"}
           /\ rp[StartupRefresher].list \in pairs_emitted
           /\ \E n \in 0..Len(rp[StartupRefresher].list) :
                  /\ PrefetchedPairs(trace) = SubSeq(rp[StartupRefresher].list, 1, n)
                  /\ pa_todo = SubSeq(rp[StartupRefresher].list, n + 1, Len(rp[StartupRefresher].list))
    /\ Happened("pairs_available") = {} => PrefetchedPairs(trace) = <<>>

LoadMarketsFailed == su.ex = "failed" /\ Happened("load_markets") = {}

ChainFailed == su.ma = "failed"

\* Every step happened, the last one for every emitted pair, and run went on
\* to work.
StartupDone ==
    /\ su.main = "work"
    /\ \A k \in 1..(Len(StartupSteps) - 1) : Happened(StartupSteps[k]) # {}
    /\ PrefetchedPairs(trace) = rp[StartupRefresher].list

\* C1: in every run the startup steps happen in the order on_start,
\* load_markets, markets-available, handler chain, pairs-available,
\* refresh_latest_ohlcv for the emitted pairs, none before the step that
\* precedes it; and unless load_markets or the chain fails, every step
\* eventually happens, the last one for every emitted pair.
C1_StartupOrder ==
    /\ [](StartupInOrder /\ StartupCarriesResults)
    /\ <>(LoadMarketsFailed \/ ChainFailed \/ StartupDone)
    /\ [](StartupDone => ~(LoadMarketsFailed \/ ChainFailed))
    /\ [](su.main = "work" => StartupDone)

\* A run in which all six steps happened and candles were fetched for an
\* emitted pair.
C1_Witness ==
    /\ StartupDone
    /\ Len(PrefetchedPairs(trace)) >= 1
    /\ \E i \in 1..Len(trace) :
           /\ trace[i].step = "refresh_latest_ohlcv"
           /\ <<trace[i].pair, tf1m>> \in DOMAIN klines

\* The state of the manager.  A refresh that raised was in progress and
\* never completed: its exception ends the run of the service.
ManagerState ==
    IF rp[StartupRefresher].pc \in {"tickers", "emitting", "raised"} THEN "RefreshInProgress"
    ELSE IF rp[StartupRefresher].pc = "done" THEN "Idle"
    ELSE IF pairlist_handlers = <<>> THEN "Uninitialized"
    ELSE "HandlersBuilt"

ManagerMoves ==
    {<<"Uninitialized", "HandlersBuilt">>, <<"HandlersBuilt", "RefreshInProgress">>,
     <<"RefreshInProgress", "Idle">>, <<"Idle", "RefreshInProgress">>}

\* What _populate_internal_config builds from the configuration.
HandlersBuilt ==
    /\ pairlist_handlers = pl_config.pairlists
    /\ pairlist_handlers # <<>>
    /\ block_list = pl_config.pair_block_list
    /\ tickers_needed = \E i \in 1..Len(pl_config.pairlists) : needstickers(pl_config.pairlists[i])

\* C26: in whatever order the tasks of the on_start subscribers run, the
\* manager has built its handler chain, its block-list and tickers_needed
\* before a refresh_pairlist starts, and it moves only from Uninitialized to
\* HandlersBuilt, to RefreshInProgress, to Idle and to RefreshInProgress again.
C26_BuiltBeforeRefresh ==
    /\ [][RefreshStarts(StartupRefresher) => HandlersBuilt]_vars
    /\ [][(ManagerState' # ManagerState) => (<<ManagerState, ManagerState'>> \in ManagerMoves)]_vars
    /\ [](ManagerState \in {"RefreshInProgress", "Idle"} => HandlersBuilt)

\* The first refresh_pairlist awaits the tickers, with a chain of two
\* handlers and a block-list.
C26_Witness ==
    /\ rp[StartupRefresher].pc = "tickers"
    /\ su.pop = "done"
    /\ Len(pairlist_handlers) = 2
    /\ block_list # <<>>
    /\ tickers_needed

(***************************************************************************)
(* cli/abc.py: CLIService.run.  The on_start emission is the emission of   *)
(* the Event above; its subscriber tasks are the tasks asyncio.all_tasks() *)
(* can find besides the task of run.                                       *)
(***************************************************************************)

RunInit ==
    /\ run_pc = "on_start"
    /\ run_exc = ""
    /\ stop_emits = 0

\* A task asyncio.all_tasks() returns: one that is not done.
Pending(task) == task.state \in {"created", "suspended"}

\* `await self.events.on_start.emit()` raises what the emission raised.
RunStartFails ==
    /\ run_pc = "on_start"
    /\ emit_pc = "raised"
    /\ run_pc' = "finally"
    /\ run_exc' = "Exception"
    /\ UNCHANGED <<stop_emits, emitVars>>
    /\ UNCHANGED notRun

\* The emission returned and `await self.work()` ends: it returns, or it
\* raises.
RunWorkEnds(exc) ==
    /\ run_pc = "on_start"
    /\ emit_pc = "returned"
    /\ run_pc' = "finally"
    /\ run_exc' = exc
    /\ UNCHANGED <<stop_emits, emitVars>>
    /\ UNCHANGED notRun

\* The finally block up to its first await: every task that is not done is
\* cancelled and the tasks are gathered, without return_exceptions.  A
\* cancelled _emit_wrapper task lets the CancelledError through.  With no
\* task to gather the await returns at once.
RunFinally ==
    /\ run_pc = "finally"
    /\ tasks' = [s \in DOMAIN tasks |->
           IF Pending(tasks[s]) THEN [state |-> "cancelled", left |-> tasks[s].left]
           ELSE tasks[s]]
    /\ run_pc' = IF \E s \in DOMAIN tasks : Pending(tasks[s]) THEN "gathering" ELSE "on_stop"
    /\ UNCHANGED <<run_exc, stop_emits, subscribers, behaviour, emit_pc>>
    /\ UNCHANGED notRun

\* `await asyncio.shield(asyncio.gather(*tasks))`: a gathered task that was
\* cancelled makes gather raise CancelledError, which leaves the finally
\* block and run.
RunGatherRaises ==
    /\ run_pc = "gathering"
    /\ \E s \in DOMAIN tasks : tasks[s].state = "cancelled"
    /\ run_pc' = "ended"
    /\ run_exc' = "CancelledError"
    /\ UNCHANGED <<stop_emits, emitVars>>
    /\ UNCHANGED notRun

\* `await asyncio.shield(self.events.on_stop.emit())` and the end of run,
\* which raises what the try block raised.
RunEmitStop ==
    /\ run_pc = "on_stop"
    /\ stop_emits' = stop_emits + 1
    /\ run_pc' = "ended"
    /\ UNCHANGED <<run_exc, emitVars>>
    /\ UNCHANGED notRun

\* No task runs between the moment the emission raises into run and the
\* cancellations of the finally block: run does not suspend in between.
RunNext ==
    \/ \E s \in SubscriberIds : Register(s)
    \/ \E s \in SubscriberIds : Unregister(s)
    \/ Emit
    \/ \E s \in SubscriberIds : TaskStep(s) /\ emit_pc = "gathering"
    \/ EmitRaise
    \/ EmitReturn
    \/ RunStartFails
    \/ \E exc \in {"", "Exception"} : RunWorkEnds(exc)
    \/ RunFinally
    \/ RunGatherRaises
    \/ RunEmitStop

\* C24: whenever CLIService.run ends, the tasks that were outstanding were
\* cancelled and on_stop was emitted exactly once, after the cancellations.
C24_StopEmittedOnce ==
    /\ [](run_pc = "ended" =>
              /\ stop_emits = 1
              /\ \A s \in DOMAIN tasks : ~Pending(tasks[s]))
    /\ [][stop_emits' # stop_emits =>
              /\ stop_emits = 0 /\ stop_emits' = 1
              /\ \A s \in DOMAIN tasks : ~Pending(tasks[s])]_vars

(***************************************************************************)
(* utils/logs.py: TTLFilter.filter, called for one record after another on *)
(* one filter.                                                             *)
(***************************************************************************)

MaxRecords == 3

\* Log records by the attributes the filter reads; levelno 10 is
\* logging.DEBUG and 20 is logging.INFO.
LogRecords == [msg : {"m1", "m2"}, levelno : {10, 20}, once_every_secs : {0, 2}]

\* What hash(record_hash_tuple) can be.  record_hash_tuple is a generator
\* object, which hashes by identity: the value is the address the allocator
\* gave the generator of this call, whatever the record says.
RecordHashes == 1..2

LogTimes ==
    {times \in [1..MaxRecords -> 0..3] :
        \A i \in 1..(MaxRecords - 1) : times[i] <= times[i + 1]}

LogCalls ==
    [fn : {"filter"}, records : [1..MaxRecords -> LogRecords], times : LogTimes,
     record_hashes : [1..MaxRecords -> RecordHashes]]

\* The TLRUCache of the filter by the time each key expires, 0 for a key
\* that is not in it.  A key is in the cache while time < expires.
EmptyLogCache == [h \in RecordHashes |-> 0]

InLogCache(cache, h, time) == time < cache[h]

\* self._cache.expire()
Expire(cache, time) == [h \in RecordHashes |-> IF time < cache[h] THEN cache[h] ELSE 0]

\* _calculate_cache_time_to_use
CacheTimeToUse(record, time) == time + record.once_every_secs

\* TTLFilter.filter: whether the record is logged, and the cache it leaves.
\* The name of the filter is empty, so that logging.Filter.filter lets
\* every record through.
TTLFilter(record, record_hash, cache, time) ==
    IF record.levelno <= 10 \/ record.once_every_secs = 0
    THEN [passed |-> TRUE, cache |-> Expire(cache, time)]
    ELSE IF InLogCache(cache, record_hash, time)
         THEN [passed |-> FALSE, cache |-> Expire(cache, time)]
         ELSE [passed |-> TRUE,
               cache |-> Expire([cache EXCEPT ![record_hash] = CacheTimeToUse(record, time)], time)]

NoRecords == [pc |-> "filtering", passed |-> <<>>, cache |-> EmptyLogCache]

Filtering(ret) == IF ret = [pc |-> "called"] THEN NoRecords ELSE ret

\* The next record handed to the filter.
CallFilterRecord ==
    /\ unit_call.fn = "filter"
    /\ unit_ret = [pc |-> "called"] \/ unit_ret.pc = "filtering"
    /\ LET before == Filtering(unit_ret)
           k == Len(before.passed) + 1
           r == TTLFilter(unit_call.records[k], unit_call.record_hashes[k], before.cache,
                          unit_call.times[k])
       IN  unit_ret' = [pc |-> IF k = MaxRecords THEN "returned" ELSE "filtering",
                        passed |-> Append(before.passed, r.passed), cache |-> r.cache]
    /\ UNCHANGED unit_call
    /\ UNCHANGED notCall

LogInit ==
    /\ unit_call \in LogCalls
    /\ unit_ret = [pc |-> "called"]

LogNext == CallFilterRecord

\* The calls before call k in which the record of call k was logged.
PassedBefore(k) ==
    {j \in 1..(k - 1) : unit_call.records[j] = unit_call.records[k] /\ unit_ret.passed[j]}

Latest(js) == CHOOSE j \in js : \A i \in js : i <= j

\* C25: a record at DEBUG level or without once_every_secs is never
\* suppressed; a record with once_every_secs = N > 0 above DEBUG is
\* suppressed when it repeats less than N seconds after it was last logged,
\* and is logged again at its first repeat after those N seconds.
C25_OncePerWindow ==
    [][(unit_call # <<>> /\ unit_call.fn = "filter" /\ unit_ret' # unit_ret) =>
          LET k == Len(unit_ret'.passed)
              record == unit_call.records[k]
              t == unit_call.times[k]
          IN  IF record.levelno <= 10 \/ record.once_every_secs = 0
              THEN unit_ret'.passed[k]
              ELSE (PassedBefore(k) # {}) =>
                       (unit_ret'.passed[k] <=>
                            t >= unit_call.times[Latest(PassedBefore(k))] + record.once_every_secs)]_vars

(***************************************************************************)
(* Direct calls of expand_pairlist and of the handlers' filter_pairlist:   *)
(* the arguments are drawn from small sets, the call is made once.         *)
(***************************************************************************)

\* "B/.*"
PatternBAny == <<"B", "/", ".", "*">>

\* The longest list of patterns that is expanded.
MaxPatterns == 3

ExpandPatterns ==
    {PairBU, PairEU, PatternAnyU, PatternLowerBU, PatternBad, PatternEAny, PatternBAny}

\* Lists of available pairs, and lists handed to a filter.
PairSequences == {<<>>, <<PairBU>>, <<PairEU>>, <<PairBU, PairEU>>, <<PairEU, PairBU>>}

ExpandCalls ==
    [fn : {"expand_pairlist"}, wildcardpl : SeqUpTo(ExpandPatterns, MaxPatterns),
     available_pairs : PairSequences, keep_invalid : BOOLEAN]

\* The configuration and the markets of the exchange the called handler has.
CallConfig == [pair_allow_list |-> <<PairBU, PairEU>>, pair_block_list |-> <<PairEU>>]

CallMarkets == {PairBU, PairEU}

\* filter_pairlist of a handler that inherits PairList.filter_pairlist;
\* valid holds the pairs for which its _validate_pair returns True.
BaseFilterCalls ==
    [fn : {"filter_pairlist"}, handler : {FilterOnly}, valid : SUBSET {PairBU, PairEU},
     pairlist : PairSequences, tickers : TickerSnapshots, markets : {CallMarkets},
     pair_allow_list : {CallConfig.pair_allow_list},
     pair_block_list : {CallConfig.pair_block_list}]

\* StaticPairList.filter_pairlist: incoming lists and configured allow-lists,
\* with a pair in both, a pair twice and a pattern.
StaticFilterCalls ==
    [fn : {"filter_pairlist"}, handler : {StaticPairList(FALSE)}, valid : {{}},
     pairlist : PairSequences \cup {<<PairEU, PairAU, PairBU>>, <<PairAU, PairAU>>},
     tickers : {<<>>}, markets : {CallMarkets},
     pair_allow_list : PairSequences \cup {<<PairBU, PairAU, PairBU>>, <<PairAU, PairAU, PairEU>>,
                                           <<PatternAnyU, PairAU>>},
     pair_block_list : {CallConfig.pair_block_list}]

\* What fetch_tickers returns for three markets: every order of the volumes
\* 300, 100 and 200, and two pairs of equal volume.
VolumeSnapshots ==
    {<<Ticker(PairAU, a), Ticker(PairBU, b), Ticker(PairEU, e)>> :
         <<a, b, e>> \in {v \in {100, 200, 300} \X {100, 200, 300} \X {100, 200, 300} :
                             v[1] # v[2] /\ v[2] # v[3] /\ v[1] # v[3]}}
    \cup {<<Ticker(PairBU, 200), Ticker(PairAU, 200), Ticker(PairEU, 100)>>}

\* VolumePairList.filter_pairlist
VolumeFilterCalls ==
    [fn : {"filter_pairlist"},
     handler : {VolumePairList(1, 0), VolumePairList(2, 0), VolumePairList(2, 150)},
     valid : {{}},
     pairlist : {<<PairAU, PairBU, PairEU>>, <<PairEU, PairBU>>, <<>>},
     tickers : VolumeSnapshots \cup TickerSnapshots,
     markets : SUBSET {PairAU, PairBU, PairEU},
     pair_allow_list : {CallConfig.pair_allow_list},
     pair_block_list : {<<>>, <<PairEU>>, <<PairAU>>, <<PatternBad>>}]

FilterCalls == BaseFilterCalls \cup StaticFilterCalls \cup VolumeFilterCalls

\* How many times gen_pairlist of one handler is called.
MaxGenerates == 3

\* The instants at which gen_pairlist is called, in the order of the calls.
GenerateTimes ==
    {times \in [1..MaxGenerates -> MonoValues \cup {3599, 3600}] :
        \A i \in 1..(MaxGenerates - 1) : times[i] <= times[i + 1]}

\* VolumePairList.gen_pairlist called MaxGenerates times on one handler,
\* with the tickers of each call.
GenerateCalls ==
    [fn : {"gen_pairlist"}, handler : {VolumePairList(1, 0), VolumePairList(2, 150)},
     snapshots : [1..MaxGenerates -> {<<Ticker(PairBU, 5), Ticker(PairEU, 7)>>,
                                      <<Ticker(PairBU, 200), Ticker(PairEU, 300)>>,
                                      <<Ticker(PairBU, 300), Ticker(PairEU, 200)>>}],
     times : GenerateTimes, markets : {CallMarkets}, pair_block_list : {<<>>, <<PairEU>>}]

NotReturned == [pc |-> "called"]

CallInit ==
    /\ unit_call \in ExpandCalls \cup FilterCalls \cup GenerateCalls
    /\ unit_ret = NotReturned

CallRest ==
    /\ unit_call = <<>>
    /\ unit_ret = <<>>

\* PairList.filter_pairlist: the pairs that are not valid are removed from
\* the list that was passed, the loop running over a copy of it.
RECURSIVE RemoveInvalid(_, _, _)
RemoveInvalid(pairlist, copy, valid) ==
    IF copy = <<>> THEN pairlist
    ELSE RemoveInvalid(IF Head(copy) \in valid THEN pairlist ELSE Remove(pairlist, Head(copy)),
                       Tail(copy), valid)

\* What a filter_pairlist call leaves: what it returned (or raised) and the
\* list object of the caller.  PairList.filter_pairlist returns the object
\* it was given; StaticPairList.filter_pairlist works on a deep copy and
\* VolumePairList.filter_pairlist builds its list from the tickers.
Filtered(r, pairlist) == [pc |-> "returned", error |-> r.error, list |-> r.list, pairlist |-> pairlist]

FilterInPlace(list) == Filtered(Returns(list), list)

CallFilterPairlist ==
    /\ unit_ret = NotReturned
    /\ unit_call.fn = "filter_pairlist"
    /\ unit_ret' = IF unit_call.handler.name = "PairList"
              THEN FilterInPlace(RemoveInvalid(unit_call.pairlist, unit_call.pairlist, unit_call.valid))
              ELSE Filtered(FilterPairlist(unit_call.handler, unit_call.pairlist, unit_call.tickers,
                                           [pair_allow_list |-> unit_call.pair_allow_list,
                                            pair_block_list |-> unit_call.pair_block_list],
                                           unit_call.markets, unit_call.pair_block_list),
                            unit_call.pairlist)
    /\ UNCHANGED unit_call

CallExpandPairlist ==
    /\ unit_ret = NotReturned
    /\ unit_call.fn = "expand_pairlist"
    /\ unit_ret' = expand_pairlist(unit_call.wildcardpl, unit_call.available_pairs,
                                  unit_call.keep_invalid) @@ [pc |-> "returned"]
    /\ UNCHANGED unit_call

\* The gen_pairlist calls made so far on the handler: what each returned
\* and the handler's _pair_cache.
NoGenerates == [pc |-> "generating", lists |-> <<>>, cache |-> NoEntry]

Generated(ret) == IF ret = NotReturned THEN NoGenerates ELSE ret

\* What a gen_pairlist call leaves: the list it returned and the _pair_cache.
AfterGenerate(before, r, last) ==
    [pc |-> IF last THEN "returned" ELSE "generating", lists |-> Append(before.lists, r.list),
     cache |-> r.cache]

\* The next gen_pairlist call on the handler.
CallGenPairlist ==
    /\ unit_call.fn = "gen_pairlist"
    /\ unit_ret = NotReturned \/ unit_ret.pc = "generating"
    /\ LET before == Generated(unit_ret)
           k == Len(before.lists) + 1
       IN  unit_ret' = AfterGenerate(before,
                           VolumeGen(unit_call.handler, unit_call.snapshots[k], unit_call.markets,
                                     unit_call.pair_block_list, before.cache, unit_call.times[k]),
                           k = MaxGenerates)
    /\ UNCHANGED unit_call

CallNext ==
    \/ CallGenPairlist /\ UNCHANGED notCall
    \/ CallFilterPairlist /\ UNCHANGED notCall
    \/ CallExpandPairlist /\ UNCHANGED notCall

\* The first handler of the chain is no generator.
NonGeneratorFirst == pairlist_handlers # <<>> /\ pairlist_handlers[1].name = "PairList"

\* refresh_pairlist of task c calls gen_pairlist in this step: at once when
\* no tickers are needed, else when fetch_tickers has returned.
GenerateInvoked(c) ==
    /\ rp'[c] # rp[c]
    /\ \/ rp[c].pc \in {"idle", "done", "raised"} /\ ~tickers_needed
       \/ rp[c].pc = "tickers" /\ rp'[c].error # "Exception"

\* C20: when the first handler of the chain is no generator, refresh_pairlist
\* raises OperationalException in the step that calls gen_pairlist, whatever
\* handlers follow, without storing or emitting a list; the allow-list is
\* never one that a refresh of such a chain produced.
C20_NonGeneratorFirstFails ==
    /\ [][\A c \in Refreshers :
              (NonGeneratorFirst /\ GenerateInvoked(c)) =>
                  (/\ rp'[c].pc = "raised"
                   /\ rp'[c].error = "OperationalException"
                   /\ allow_list' = allow_list
                   /\ pairs_emitted' = pairs_emitted
                   /\ pair_cache' = pair_cache)]_vars
    /\ [](NonGeneratorFirst =>
              (/\ allow_list = pl_config.pair_allow_list
               /\ pairs_emitted = {}
               /\ \A c \in Refreshers : rp[c].pc \notin {"emitting", "done"}))

\* C20 witness: the chain is a handler that is no generator followed by a
\* StaticPairList; the markets are loaded and a refresh has raised
\* OperationalException.
C20_Witness ==
    /\ pairlist_handlers = <<FilterOnly, StaticPairList(FALSE)>>
    /\ markets # {}
    /\ \E c \in Refreshers : rp[c].pc = "raised" /\ rp[c].error = "OperationalException"

\* An expand_pairlist call has returned or raised.
Expanded(keep_invalid) ==
    /\ unit_ret # NotReturned
    /\ unit_call.fn = "expand_pairlist"
    /\ unit_call.keep_invalid = keep_invalid

\* The pairs of available_pairs a pattern matches, in their order.
Matching(pair_wc, available_pairs) ==
    SelectSeq(available_pairs, LAMBDA pair : FullMatch(pair_wc, pair))

\* What the patterns stand for, pattern after pattern; with keep_invalid a
\* pattern that matches nothing stands for itself.
RECURSIVE Expansion(_, _, _)
Expansion(wildcardpl, available_pairs, keep_invalid) ==
    IF wildcardpl = <<>> THEN <<>>
    ELSE (IF keep_invalid /\ Matching(Head(wildcardpl), available_pairs) = <<>>
          THEN <<Head(wildcardpl)>>
          ELSE Matching(Head(wildcardpl), available_pairs))
         \o Expansion(Tail(wildcardpl), available_pairs, keep_invalid)

AllCompile(wildcardpl) == \A i \in 1..Len(wildcardpl) : Compiles(wildcardpl[i])

\* C17: with keep_invalid=True every token of the list expand_pairlist
\* returns matches [A-Za-z0-9/-]+, the tokens that do not being dropped from
\* the expansion in which a pattern that matches no available pair stands at
\* its position; expanding [E/U] over [B/U] gives [E/U].
C17_KeepInvalidWhitelisted ==
    (Expanded(TRUE) /\ unit_ret.error = "") =>
        /\ \A i \in 1..Len(unit_ret.list) : IsPairName(unit_ret.list[i])
        /\ unit_ret.list = SelectSeq(Expansion(unit_call.wildcardpl, unit_call.available_pairs, TRUE),
                                     IsPairName)
        /\ (unit_call.wildcardpl = <<PairEU>> /\ unit_call.available_pairs = <<PairBU>>) =>
               unit_ret.list = <<PairEU>>

\* C18: with keep_invalid=False expand_pairlist returns, pattern after
\* pattern, the available pairs that full-match the pattern without regard
\* to case, in the order of available_pairs and without deduplication; a
\* pattern that matches nothing adds nothing; a pattern that does not compile
\* makes the call raise ValueError naming that pattern.  Expanding [B/.*]
\* over [B/U, E/U] gives [B/U], expanding [E/U] over [B/U] gives [].
C18_ExpandConcatenates ==
    Expanded(FALSE) =>
        LET wildcardpl == unit_call.wildcardpl
            available_pairs == unit_call.available_pairs
        IN  /\ AllCompile(wildcardpl) =>
                   /\ unit_ret.error = ""
                   /\ unit_ret.list = Expansion(wildcardpl, available_pairs, FALSE)
            /\ ~AllCompile(wildcardpl) =>
                   /\ unit_ret.error = "ValueError"
                   /\ \E i \in 1..Len(wildcardpl) :
                          /\ unit_ret.pair_wc = wildcardpl[i]
                          /\ ~Compiles(wildcardpl[i])
                          /\ \A j \in 1..(i - 1) : Compiles(wildcardpl[j])
            /\ (wildcardpl = <<PatternBAny>> /\ available_pairs = <<PairBU, PairEU>>) =>
                   unit_ret.list = <<PairBU>>
            /\ (wildcardpl = <<PairEU>> /\ available_pairs = <<PairBU>>) => unit_ret.list = <<>>
            /\ (wildcardpl = <<PatternLowerBU>> /\ available_pairs = <<PairBU>>) =>
                   unit_ret.list = <<PairBU>>
            /\ (wildcardpl = <<PairBU, PatternAnyU>> /\ available_pairs = <<PairEU, PairBU>>) =>
                   unit_ret.list = <<PairBU, PairEU, PairBU>>

\* C18 witness: two patterns, the second matching what the first matched
\* already; the pair is returned twice.
C18_Witness ==
    /\ Expanded(FALSE)
    /\ unit_call.wildcardpl = <<PairBU, PatternAnyU>>
    /\ unit_call.available_pairs = <<PairEU, PairBU>>
    /\ unit_ret.list = <<PairBU, PairEU, PairBU>>

\* C19: filter_pairlist of no handler changes the list it is passed: after
\* the call the caller's list holds what it held before, in the same order.
C19_FilterLeavesInput ==
    (unit_ret # NotReturned /\ unit_call.fn = "filter_pairlist") =>
        unit_ret.pairlist = unit_call.pairlist

\* A filter_pairlist call of a handler of that class has returned or raised.
FilterReturned(name) ==
    /\ unit_ret # NotReturned
    /\ unit_call.fn = "filter_pairlist"
    /\ unit_call.handler.name = name

\* The quote volume the snapshot has for a pair.
VolumeOf(tickers, pair) ==
    tickers[CHOOSE i \in 1..Len(tickers) : tickers[i].symbol = pair].quoteVolume

\* The pairs of the snapshot that may be returned: in the incoming list,
\* above min_value, an active market, and matched by no block-list pattern.
Eligible(c) ==
    {pair \in {c.tickers[i].symbol : i \in 1..Len(c.tickers)} :
        /\ pair \in SeqToSet(c.pairlist)
        /\ (c.handler.min_value > 0 => VolumeOf(c.tickers, pair) > c.handler.min_value)
        /\ pair \in c.markets
        /\ \A j \in 1..Len(c.pair_block_list) : ~FullMatch(c.pair_block_list[j], pair)}

\* C21: VolumePairList returns the eligible pairs by descending volume, cut
\* to number_assets after the pairs that are no market and the block-listed
\* pairs were removed: the list holds the min(number_assets, eligible) pairs
\* of highest volume and nothing else.  number_assets=2 with volumes A=300,
\* B=100, E=200, all markets, nothing blocked: [A, E].
C21_VolumeSortedThenCut ==
    FilterReturned("VolumePairList") =>
        LET c == unit_call
            list == unit_ret.list
        IN  IF c.markets = {} THEN unit_ret.error = "OperationalException"
            ELSE IF ~AllCompile(c.pair_block_list) THEN unit_ret.error = "" /\ list = <<>>
            ELSE /\ unit_ret.error = ""
                 /\ SeqToSet(list) \subseteq Eligible(c)
                 /\ Len(list) = Min(c.handler.number_assets, Cardinality(Eligible(c)))
                 /\ \A i, j \in 1..Len(list) :
                        i < j => /\ list[i] # list[j]
                                 /\ VolumeOf(c.tickers, list[i]) >= VolumeOf(c.tickers, list[j])
                 /\ \A pair \in Eligible(c) \ SeqToSet(list) :
                        \A i \in 1..Len(list) :
                            VolumeOf(c.tickers, list[i]) >= VolumeOf(c.tickers, pair)
                 /\ (/\ c.handler = VolumePairList(2, 0)
                     /\ c.tickers = <<Ticker(PairAU, 300), Ticker(PairBU, 100), Ticker(PairEU, 200)>>
                     /\ c.pairlist = <<PairAU, PairBU, PairEU>>
                     /\ c.markets = {PairAU, PairBU, PairEU}
                     /\ c.pair_block_list = <<>>) => list = <<PairAU, PairEU>>

\* C21 witness: the pair of highest volume is block-listed; the two places
\* go to the other two pairs.
C21_Witness ==
    /\ FilterReturned("VolumePairList")
    /\ unit_call.handler = VolumePairList(2, 0)
    /\ unit_call.tickers = <<Ticker(PairAU, 300), Ticker(PairBU, 100), Ticker(PairEU, 200)>>
    /\ unit_call.pairlist = <<PairAU, PairBU, PairEU>>
    /\ unit_call.markets = {PairAU, PairBU, PairEU}
    /\ unit_call.pair_block_list = <<PairAU>>
    /\ unit_ret.list = <<PairEU, PairBU>>

\* A gen_pairlist call is made in this step, on a handler whose _pair_cache
\* holds the list of an earlier call.
GeneratesAgain ==
    /\ unit_call.fn = "gen_pairlist"
    /\ unit_ret # NotReturned
    /\ unit_ret' # unit_ret

\* C22: a gen_pairlist call made less than refresh_period seconds after the
\* call that produced the cached list returns that list, empty or not, and
\* computes nothing (the cache entry stays as it is); the first call after
\* refresh_period seconds computes the list anew from its tickers.
C22_GenerateCached ==
    [][GeneratesAgain =>
          LET k == Len(unit_ret.lists) + 1
              t == unit_call.times[k]
          IN  IF t < unit_ret.cache.at + RefreshPeriod
              THEN /\ unit_ret'.lists[k] = unit_ret.cache.value
                   /\ unit_ret'.cache = unit_ret.cache
              ELSE /\ unit_ret'.cache = Entry(t, unit_ret'.lists[k])
                   /\ unit_ret'.lists[k] =
                          VolumeFilter(unit_call.handler, Symbols(unit_call.snapshots[k]),
                                       unit_call.snapshots[k], unit_call.markets,
                                       unit_call.pair_block_list).list]_vars

\* The allow-list pairs that are not in the incoming list, each once, in the
\* order of their first occurrence in the allow-list.
Missing(pairlist, pair_allow_list) ==
    LET first == {i \in 1..Len(pair_allow_list) :
                     /\ pair_allow_list[i] \notin SeqToSet(pairlist)
                     /\ \A j \in 1..(i - 1) : pair_allow_list[j] # pair_allow_list[i]}
    IN  SelectSeq([i \in 1..Len(pair_allow_list) |-> <<i, pair_allow_list[i]>>],
                  LAMBDA e : e[1] \in first)

\* C23: StaticPairList.filter_pairlist returns the incoming list unchanged,
\* followed by the allow-list pairs that are not in it, each once and in
\* allow-list order.
C23_StaticFilterAppends ==
    FilterReturned("StaticPairList") =>
        LET incoming == unit_call.pairlist
            missing == Missing(incoming, unit_call.pair_allow_list)
        IN  /\ unit_ret.error = ""
            /\ Len(unit_ret.list) = Len(incoming) + Len(missing)
            /\ SubSeq(unit_ret.list, 1, Len(incoming)) = incoming
            /\ \A k \in 1..Len(missing) : unit_ret.list[Len(incoming) + k] = missing[k][2]

\* C23 witness: the incoming list holds E/U; the allow-list [A/U, A/U, E/U]
\* adds A/U once, after it.
C23_Witness ==
    /\ FilterReturned("StaticPairList")
    /\ unit_call.pairlist = <<PairEU>>
    /\ unit_call.pair_allow_list = <<PairAU, PairAU, PairEU>>
    /\ unit_ret.list = <<PairEU, PairAU>>

\* C36 as stated: in a call without since_ms, when more than one candle call
\* is required, the since_ms each scheduled fetch is given is the one computed
\* from the timeframe and the candle limit of its own key, whatever other
\* keys the call holds and in whatever order they are walked.
C36_SinceOfOwnTimeframe ==
    [][\A c \in DOMAIN oc :
           (CallStep(c) /\ oc'[c].since_ms = 0 /\ required_candle_call_count > 1) =>
               \A i \in 1..Len(oc'[c].input_coroutines) :
                   oc'[c].input_coroutines[i].since_ms =
                       SyntheticSince(oc'[c].input_coroutines[i].key[2], now)]_vars

\* The step in which a batch of caller c resolves and its results are handled.
ResultsStep(c) == oc[c].pc = "waiting" /\ oc'[c] # oc[c]

\* C37 as stated: a call with cache=False leaves the OHLCV cache state as it
\* was: neither a cached series nor a last_refresh_time differs after its
\* results were handled.
C37_UncachedCallLeavesCacheState ==
    [][\A c \in DOMAIN oc :
           (ResultsStep(c) /\ ~oc[c].cache) =>
               (klines' = klines /\ pairs_last_refresh_time' = pairs_last_refresh_time)]_vars

\* What the generator and the filters of the chain come to in the step in
\* which refresh_pairlist of task c runs them.
ChainResult(c) ==
    FilterChain(Tail(pairlist_handlers),
                GenPairlist(Head(pairlist_handlers), rp'[c].tickers, pl_config, markets,
                            block_list, pair_cache, mono),
                rp'[c].tickers, pl_config, markets, block_list)

NoneAllowsInactive == \A i \in 1..Len(pairlist_handlers) : ~pairlist_handlers[i].allow_inactive

\* C39 as stated: when no handler of the chain allows inactive pairs, every
\* entry of the list a completed refresh_pairlist stored and emitted is a key
\* of the markets: no pattern and no unknown pair is emitted with
\* pairs-available.
C39_AllowListOnlyMarkets ==
    NoneAllowsInactive =>
        /\ \A c \in DOMAIN rp :
               rp[c].pc \in {"emitting", "done"} => SeqToSet(rp[c].list) \subseteq markets
        /\ \A list \in pairs_emitted : SeqToSet(list) \subseteq markets

(***************************************************************************)
(* VolumePairList with a lookback range.                                   *)
(***************************************************************************)

\* VolumePairListConfig with lookback_period candles of lookback_timeframe.
VolumeRangePairList(number_assets, min_value, lookback_period) ==
    VolumePairList(number_assets, min_value) @@ [lookback_period |-> lookback_period]

\* VolumePairListConfig.lookback_timeframe
lookback_timeframe == "1d"

\* self._use_range: the timeframe has minutes and lookback_period > 0.
use_range(handler) == handler.lookback_period > 0

\* pair_candles["typical_price"]
typical_price(candle) == (candle.high + candle.low + candle.close) \div 3

\* pair_candles["quoteVolume"]
CandleQuoteVolume(candle) == candle.volume * typical_price(candle)

RECURSIVE SumQuoteVolume(_)
SumQuoteVolume(pair_candles) ==
    IF pair_candles = <<>> THEN 0
    ELSE CandleQuoteVolume(Head(pair_candles)) + SumQuoteVolume(Tail(pair_candles))

\* pair_candles["quoteVolume"].rolling(lookback_period).sum().iloc[-1] of a
\* series of at least lookback_period candles: the sum over the last
\* lookback_period candles.
quote_volume(pair_candles, lookback_period) ==
    SumQuoteVolume(SubSeq(pair_candles, Len(pair_candles) - lookback_period + 1,
                          Len(pair_candles)))

\* The mutant of RangeVolume: a ticker without candle data keeps the volume
\* of the exchange.
RangeVolumeKept(tk, candles, handler) ==
    LET key == <<tk.symbol, lookback_timeframe>>
    IN  IF key \in DOMAIN candles /\ candles[key] # <<>>
        THEN quote_volume(candles[key], handler.lookback_period)
        ELSE tk.quoteVolume

\* The quoteVolume the loop over filtered_tickers stores in a ticker: the
\* range volume of its candles, 0 when the candles have no entry for the
\* pair or an empty one.
RangeVolume(tk, candles, handler) ==
    LET key == <<tk.symbol, lookback_timeframe>>
    IN  IF key \in DOMAIN candles /\ candles[key] # <<>>
        THEN quote_volume(candles[key], handler.lookback_period)
        ELSE 0

\* The snapshot as filter_pairlist leaves it: filtered_tickers holds the
\* ticker records of the snapshot themselves, so that the assignment to
\* filtered_tickers[idx]["quoteVolume"] is an assignment to the snapshot.
TickersAfter(handler, pairlist, tickers, candles) ==
    IF use_range(handler)
    THEN [i \in 1..Len(tickers) |->
             IF tickers[i].symbol \in SeqToSet(pairlist)
             THEN Ticker(tickers[i].symbol, RangeVolume(tickers[i], candles, handler))
             ELSE tickers[i]]
    ELSE tickers

\* VolumePairList.filter_pairlist: with a lookback range the volumes are
\* replaced first; the minimum, the sort, the markets, the block-list and the
\* cut follow.
VolumeRangeFilter(handler, pairlist, tickers, candles, mkts, blk) ==
    VolumeFilter(handler, pairlist, TickersAfter(handler, pairlist, tickers, candles), mkts, blk)

\* Candles of quote volume 100, 200 and 300.
Candle100 == Candle(1000, 9, 12, 9, 9, 10)

Candle200 == Candle(2000, 6, 6, 3, 6, 40)

Candle300 == Candle(0, 3, 4, 2, 3, 100)

\* What refresh_latest_ohlcv returns for a pair it has an entry for: an empty
\* series, or at least lookback_period candles.
CandleSeries ==
    {<<>>, <<Candle100, [Candle100 EXCEPT !.ts = 2000]>>, <<Candle300, Candle100, Candle200>>}

\* The candles refresh_latest_ohlcv(needed_pairs, since_ms, cache=False)
\* returns: a pair whose fetch failed has no entry.
CandleMaps ==
    UNION {[{<<pair, lookback_timeframe>> : pair \in fetched} -> CandleSeries] :
               fetched \in SUBSET {PairAU, PairBU, PairEU}}

RangeFilterCalls ==
    [fn : {"filter_pairlist"},
     handler : {VolumeRangePairList(2, 0, 2), VolumeRangePairList(3, 200, 2),
                VolumeRangePairList(3, 200, 0), VolumeRangePairList(1, 0, 0)},
     pairlist : {<<PairAU, PairBU, PairEU>>, <<PairEU, PairBU>>},
     tickers : {<<Ticker(PairAU, 300), Ticker(PairBU, 200), Ticker(PairEU, 100)>>,
                <<Ticker(PairEU, 200), Ticker(PairAU, 100), Ticker(PairBU, 150)>>},
     candles : CandleMaps,
     markets : {{PairAU, PairBU, PairEU}, {PairAU, PairBU}, {}},
     pair_block_list : {<<>>, <<PairAU>>}]

VolumeRangeInit ==
    /\ unit_call \in RangeFilterCalls
    /\ unit_ret = NotReturned

\* await handler.filter_pairlist(pairlist, tickers): what it returns and the
\* snapshot it leaves.
CallRangeFilter ==
    /\ unit_ret = NotReturned
    /\ unit_call.fn = "filter_pairlist"
    /\ unit_ret' = Filtered(VolumeRangeFilter(unit_call.handler, unit_call.pairlist,
                                              unit_call.tickers, unit_call.candles,
                                              unit_call.markets, unit_call.pair_block_list),
                            unit_call.pairlist)
                   @@ [tickers |-> TickersAfter(unit_call.handler, unit_call.pairlist,
                                                unit_call.tickers, unit_call.candles)]
    /\ UNCHANGED unit_call

VolumeRangeNext == CallRangeFilter /\ UNCHANGED notCall

\* A filter_pairlist call of a VolumePairList has returned.
RangeReturned == unit_ret # NotReturned /\ unit_call.fn = "filter_pairlist"

\* C32 as stated: the ticker snapshot a filter_pairlist call leaves is the
\* snapshot it was passed, every record with the volume of the exchange, with
\* a lookback range and without one.
C32_SnapshotUnchanged == RangeReturned => unit_ret.tickers = unit_call.tickers

\* The pairs of the incoming list that have a ticker, are a market and are
\* matched by no block-list pattern.
Candidates(c) ==
    {pair \in {c.tickers[i].symbol : i \in 1..Len(c.tickers)} :
        /\ pair \in SeqToSet(c.pairlist)
        /\ pair \in c.markets
        /\ \A j \in 1..Len(c.pair_block_list) : ~FullMatch(c.pair_block_list[j], pair)}

\* C34 as stated: with min_value > 0 the pairs dropped for their volume are
\* the pairs below min_value: when the cut takes nothing, every candidate
\* whose volume is min_value or more is returned.
C34_EqualMinimumKept ==
    (RangeReturned /\ unit_call.handler.min_value > 0) =>
        LET atLeast == {pair \in Candidates(unit_call) :
                           VolumeOf(unit_ret.tickers, pair) >= unit_call.handler.min_value}
        IN  Cardinality(atLeast) <= unit_call.handler.number_assets =>
                atLeast \subseteq SeqToSet(unit_ret.list)

\* The pairs of the incoming list whose fetch yielded no candle data.
WithoutCandles(c) ==
    {pair \in SeqToSet(c.pairlist) \cap {c.tickers[i].symbol : i \in 1..Len(c.tickers)} :
        \/ <<pair, lookback_timeframe>> \notin DOMAIN c.candles
        \/ c.candles[<<pair, lookback_timeframe>>] = <<>>}

\* C35: with a lookback range a pair without candle data (no entry, or an
\* empty series) gets volume 0 and stays a candidate: without min_value it is
\* returned whenever it is a market, not block-listed, and the cut takes
\* nothing.
C35_NoCandlesVolumeZero ==
    (RangeReturned /\ use_range(unit_call.handler)) =>
        \A pair \in WithoutCandles(unit_call) :
            /\ VolumeOf(unit_ret.tickers, pair) = 0
            /\ (/\ unit_call.handler.min_value = 0
                /\ pair \in Candidates(unit_call)
                /\ Cardinality(Candidates(unit_call)) <= unit_call.handler.number_assets) =>
                   pair \in SeqToSet(unit_ret.list)

\* C35 witness: the fetch of B/U failed and that of E/U gave an empty series;
\* both are returned, behind A/U.
C35_Witness ==
    /\ RangeReturned
    /\ unit_call.handler = VolumeRangePairList(2, 0, 2)
    /\ unit_call.pairlist = <<PairEU, PairBU>>
    /\ unit_call.markets = {PairAU, PairBU, PairEU}
    /\ unit_call.pair_block_list = <<>>
    /\ DOMAIN unit_call.candles = {<<PairEU, lookback_timeframe>>}
    /\ unit_call.candles[<<PairEU, lookback_timeframe>>] = <<>>
    /\ SeqToSet(unit_ret.list) = {PairEU, PairBU}

(***************************************************************************)
(* exchanges/abc.py: get_historic_ohlcv, page by page.                     *)
(***************************************************************************)

\* The instants (seconds) at which get_historic_ohlcv reads the clock.
HistoricTimes == {60, 110, 40000, 70000}

\* The most get_candle_history calls one get_historic_ohlcv call makes.
MaxPages == 3

\* The get_historic_ohlcv calls: since_ms is a start in milliseconds.
HistoricCalls ==
    [fn : {"get_historic_ohlcv"}, pair : {PairBU}, timeframe : {tf1m}, since_ms : {0, 60000},
     raise_ : BOOLEAN, at : HistoricTimes]

\* range(since_ms, arrow.utcnow().int_timestamp * 1000, one_call): the start
\* of each get_candle_history call.
HistoricStarts(timeframe, since_ms, t) ==
    LET one_call == to_msecs(timeframe) * ohlcv_candle_limit(timeframe)
    IN  [k \in 1..HistoricPages(timeframe, since_ms, t) |-> since_ms + (k - 1) * one_call]

\* What fetch_ohlcv may answer for the page that starts at `since`: nothing,
\* two candles from the start on in either order, the running candle alone
\* whatever the start; or it fails for good.
PageAnswers(timeframe, since, t) ==
    LET m == to_msecs(timeframe)
        x(ts) == Candle(ts, 3, 5, 2, 4, 10)
        y(ts) == Candle(ts, 4, 6, 1, 3, 20)
    IN  {Fetched(<<>>), Fetched(<<x(since), y(since + m)>>), Fetched(<<y(since + m), x(since)>>),
         Fetched(<<y((t \div to_seconds(timeframe)) * m)>>), Raised}

\* The mutant of get_historic_ohlcv: the data is returned as it was extended.
RECURSIVE get_historic_ohlcv_unsorted(_, _, _)
get_historic_ohlcv_unsorted(results, raise_, data) ==
    IF results = <<>> THEN [error |-> "", data |-> data]
    ELSE IF Head(results).raised
    THEN IF raise_ THEN [error |-> "RuntimeError", data |-> <<>>]
         ELSE get_historic_ohlcv_unsorted(Tail(results), raise_, data)
    ELSE get_historic_ohlcv_unsorted(Tail(results), raise_, data \o Head(results).ticks)

\* get_historic_ohlcv after the gather: the results are walked in the order
\* of the coroutines; an exception is skipped, or with raise_ ends the call
\* (the bare raise has no active exception: RuntimeError); the data of the
\* pages is extended and sorted at the end.
RECURSIVE get_historic_ohlcv(_, _, _)
get_historic_ohlcv(results, raise_, data) ==
    IF results = <<>> THEN [error |-> "", data |-> SortByTs(data)]
    ELSE IF Head(results).raised
    THEN IF raise_ THEN [error |-> "RuntimeError", data |-> <<>>]
         ELSE get_historic_ohlcv(Tail(results), raise_, data)
    ELSE get_historic_ohlcv(Tail(results), raise_, data \o Head(results).ticks)

HistoricInit ==
    /\ unit_call \in HistoricCalls
    /\ unit_ret = NotReturned

\* get_historic_ohlcv up to its gather: one get_candle_history coroutine per
\* start; without a start there is no batch and the call returns at once.
CallHistoricOhlcv ==
    /\ unit_ret = NotReturned
    /\ unit_call.fn = "get_historic_ohlcv"
    /\ LET starts == HistoricStarts(unit_call.timeframe, unit_call.since_ms, unit_call.at)
       IN  unit_ret' = IF starts = <<>>
                       THEN [pc |-> "returned", input_coroutines |-> starts, answers |-> <<>>,
                             results |-> <<>>, error |-> "", data |-> <<>>]
                       ELSE [pc |-> "gathering", input_coroutines |-> starts, answers |-> <<>>,
                             results |-> <<>>]
    /\ UNCHANGED unit_call

\* A get_candle_history call of the batch finishes, in whatever order: the
\* gather keeps its result at the position of its coroutine.
PageAnswered(i) ==
    /\ unit_ret.pc = "gathering"
    /\ i \in 1..Len(unit_ret.input_coroutines) \ DOMAIN unit_ret.results
    /\ \E answer \in PageAnswers(unit_call.timeframe, unit_ret.input_coroutines[i], unit_call.at) :
           unit_ret' = [unit_ret EXCEPT
                            !.answers = (i :> answer) @@ @,
                            !.results = (i :> CoroutineResult(
                                                  [key |-> <<unit_call.pair, unit_call.timeframe>>,
                                                   path |-> "get_candle_history",
                                                   since_ms |-> unit_ret.input_coroutines[i]],
                                                  answer, unit_call.at)) @@ @]
    /\ UNCHANGED unit_call

\* The gather resolves when every coroutine has finished; the results are
\* handled and the call returns or raises.
HistoricGatherDone ==
    /\ unit_ret.pc = "gathering"
    /\ DOMAIN unit_ret.results = 1..Len(unit_ret.input_coroutines)
    /\ unit_ret' = [pc |-> "returned", input_coroutines |-> unit_ret.input_coroutines,
                    answers |-> unit_ret.answers, results |-> unit_ret.results]
                   @@ get_historic_ohlcv([i \in 1..Len(unit_ret.input_coroutines) |->
                                              unit_ret.results[i]],
                                         unit_call.raise_, <<>>)
    /\ UNCHANGED unit_call

HistoricNext ==
    \/ CallHistoricOhlcv /\ UNCHANGED notCall
    \/ \E i \in 1..MaxPages : PageAnswered(i) /\ UNCHANGED notCall
    \/ HistoricGatherDone /\ UNCHANGED notCall

\* A get_historic_ohlcv call has returned, every page having been answered.
HistoricReturned ==
    /\ unit_call.fn = "get_historic_ohlcv"
    /\ unit_ret # NotReturned
    /\ unit_ret.pc = "returned"
    /\ \A i \in DOMAIN unit_ret.answers : ~unit_ret.answers[i].raised

\* How many times a candle is in a series.
Occurrences(series, candle) == Cardinality({i \in 1..Len(series) : series[i] = candle})

\* C33: get_historic_ohlcv makes one get_candle_history call for each start
\* since_ms + k * (candle limit * timeframe) that lies before the current
\* time, so that the pages reach from since_ms to the current time, and
\* returns the candles of all pages, each as often as the pages hold it, in
\* ascending order of timestamp, in whatever order the pages finished and
\* whether a page came ascending or descending.
C33_PagesConcatenatedAscending ==
    HistoricReturned =>
        LET one_call == to_msecs(unit_call.timeframe) * ohlcv_candle_limit(unit_call.timeframe)
            now_ms == unit_call.at * 1000
            starts == unit_ret.input_coroutines
            answers == unit_ret.answers
            data == unit_ret.data
            candles == UNION {SeqToSet(answers[i].ticks) : i \in DOMAIN answers}
        IN  /\ unit_ret.error = ""
            /\ DOMAIN answers = 1..Len(starts)
            /\ \A k \in 1..Len(starts) :
                   starts[k] = unit_call.since_ms + (k - 1) * one_call /\ starts[k] < now_ms
            /\ unit_call.since_ms + Len(starts) * one_call >= now_ms
            /\ \A i, j \in 1..Len(data) : i < j => data[i].ts <= data[j].ts
            /\ SeqToSet(data) = candles
            /\ \A candle \in candles :
                   Occurrences(data, candle) =
                       Cardinality({<<i, j>> \in (DOMAIN answers) \X (1..2) :
                                        j <= Len(answers[i].ticks) /\ answers[i].ticks[j] = candle})

\* C33 witness: three pages from 0 at 70000 s, the first of which came
\* descending; the six candles are returned ascending.
C33_Witness ==
    /\ HistoricReturned
    /\ Len(unit_ret.input_coroutines) = 3
    /\ unit_ret.answers[1].ticks # <<>>
    /\ unit_ret.answers[1].ticks[1].ts = 60000
    /\ Len(unit_ret.data) = 6
    /\ unit_ret.data[1].ts = 0
    /\ unit_ret.data[6].ts = 60060000

(***************************************************************************)
(* The specifications: one component runs, the others rest.                *)
(***************************************************************************)

RetrySpecInit == RetryInit /\ EmitRest /\ MarketRest /\ OhlcvRest /\ PairlistRest /\ StartupRest /\ CallRest /\ RunRest

RetrySpec == RetrySpecInit /\ [][RetryNext]_vars

EmitSpecInit == EmitInit /\ RetryRest /\ MarketRest /\ OhlcvRest /\ PairlistRest /\ StartupRest /\ CallRest /\ RunRest

EmitSpec == EmitSpecInit /\ [][EmitNext]_vars

MarketSpecInit == MarketInit /\ RetryRest /\ EmitRest /\ OhlcvRest /\ PairlistRest /\ StartupRest /\ CallRest /\ RunRest

MarketSpec == MarketSpecInit /\ [][MarketNext]_vars

MarketSeqSpec == MarketSpecInit /\ [][MarketSeqNext]_vars

OhlcvSpecInit == OhlcvInit /\ RetryRest /\ EmitRest /\ MarketRest /\ PairlistRest /\ StartupRest /\ CallRest /\ RunRest

OhlcvOverlapSpecInit ==
    /\ OhlcvOverlapInit /\ RetryRest /\ EmitRest /\ MarketRest /\ PairlistRest /\ StartupRest
    /\ CallRest /\ RunRest

OhlcvOverlapSpec == OhlcvOverlapSpecInit /\ [][OhlcvOverlapNext]_vars

OhlcvBatchSpecInit ==
    /\ OhlcvBatchInit /\ RetryRest /\ EmitRest /\ MarketRest /\ PairlistRest /\ StartupRest
    /\ CallRest /\ RunRest

OhlcvBatchSpec == OhlcvBatchSpecInit /\ [][OhlcvBatchNext]_vars

OhlcvSeqSpec == OhlcvSpecInit /\ [][OhlcvSeqNext]_vars

PairlistSpecInit == PairlistInit /\ RetryRest /\ EmitRest /\ MarketsLoaded /\ OhlcvRest /\ StartupRest /\ CallRest /\ RunRest

PairlistSpec == PairlistSpecInit /\ [][PairlistNext]_vars

\* _on_pairs_available passes since_ms, so that required_candle_call_count is
\* not read.
StartupSpecInit ==
    /\ StartupInit /\ PairlistInit /\ OhlcvInit /\ MarketRest /\ RetryRest /\ EmitRest /\ CallRest /\ RunRest
    /\ required_candle_call_count = 1

RunSpecInit ==
    /\ RunInit /\ EmitInit /\ RetryRest /\ MarketRest /\ OhlcvRest /\ PairlistRest /\ StartupRest
    /\ CallRest

RunSpec == RunSpecInit /\ [][RunNext]_vars

LogSpecInit ==
    /\ LogInit /\ RunRest /\ RetryRest /\ EmitRest /\ MarketRest /\ OhlcvRest /\ PairlistRest
    /\ StartupRest

LogSpec == LogSpecInit /\ [][LogNext]_vars

CallSpecInit ==
    /\ CallInit /\ RetryRest /\ EmitRest /\ MarketRest /\ OhlcvRest /\ PairlistRest /\ StartupRest
    /\ RunRest

CallSpec == CallSpecInit /\ [][CallNext]_vars

VolumeRangeSpecInit ==
    /\ VolumeRangeInit /\ RetryRest /\ EmitRest /\ MarketRest /\ OhlcvRest /\ PairlistRest /\ StartupRest
    /\ RunRest

VolumeRangeSpec == VolumeRangeSpecInit /\ [][VolumeRangeNext]_vars

HistoricSpecInit ==
    /\ HistoricInit /\ RetryRest /\ EmitRest /\ MarketRest /\ OhlcvRest /\ PairlistRest /\ StartupRest
    /\ RunRest

HistoricSpec == HistoricSpecInit /\ [][HistoricNext]_vars

\* Chains that are built with a handler that is no generator in front.
HandlerChains ==
    Chains \cup {<<FilterOnly>>, <<FilterOnly, StaticPairList(FALSE)>>,
                 <<FilterOnly, VolumePairList(1, 0)>>}

HandlerConfigs ==
    [pair_allow_list : AllowLists, pair_block_list : BlockLists, pairlists : HandlerChains]

HandlerSpecInit ==
    /\ pl_config \in HandlerConfigs /\ ManagerConstructed
    /\ RetryRest /\ EmitRest /\ MarketsLoaded /\ OhlcvRest /\ StartupRest /\ CallRest /\ RunRest

HandlerSpec == HandlerSpecInit /\ [][PairlistNext]_vars

StartupSpec == StartupSpecInit /\ [][StartupNext]_vars

\* The event loop runs a task that is ready, and the exchange answers every
\* request in the end.
StartupFairSpec == StartupSpec /\ WF_vars(StartupNext)

====
